---- MODULE Spec2Model ----
(***************************************************************************)
(* The Power BI data preparation pipeline (PowerBIDataPreprocessor) and    *)
(* the agriculture cleaning script, as state machines over small tables.   *)
(*                                                                         *)
(* A table is [cols |-> <<column names>>, rows |-> <<rows>>]; a row maps   *)
(* each column name to a cell; a cell is Null (NaN / None) or Val(v).      *)
(* Areas and productions are whole numbers.  A value the code rounds to    *)
(* three decimals is held in thousandths (Milli), an unrounded quotient as *)
(* an exact fraction [num, den].                                           *)
(***************************************************************************)
EXTENDS Integers, Sequences, FiniteSets, TLC

VARIABLES
    caller,            \* "process_all", or "direct" calls of the builders
    srcStatus,         \* what load_cleaned_data finds at data_source_path
    csv,               \* the table stored in the file at data_source_path
    rng,               \* the draws np.random yields after seed(42)
    now_year,          \* datetime.now().year
    pc,                \* position in the running script
    df,                \* the table being processed
    dimdf,             \* the table create_dimension_tables was given
    dimensions,        \* result of create_dimension_tables
    fact_table,        \* result of create_fact_table
    summaries,         \* result of create_summary_tables
    exported,          \* files written to the output directory
    model_info,        \* content of data_model_info.json
    error,             \* the exception that ended the run, if any
    previous,          \* what the run before this one was given and built
    before,            \* cleaning: the table as the last step found it
    outlier_summary,   \* cleaning: the outlier counts of the analysed columns
    original_rows,     \* cleaning: the number of rows when missing values are handled
    cleaned_df,        \* cleaning: the table stored when the script completes
    missing_packages,  \* setup: the packages check_requirements could not import
    steps,             \* setup: the calls main has made, with what they returned
    requested,         \* loading: the outcome of each URL requested so far
    examined,          \* loading: the local files examined so far
    source_url,        \* loading: the URL download_india_dataset returned
    source_file,       \* loading: the path load_local_dataset returned
    india_df           \* loading: the table stored for the cleaning section

vars == <<caller, srcStatus, csv, rng, now_year, pc, df, dimdf, dimensions,
          fact_table, summaries, exported, model_info, error, previous,
          before, outlier_summary, original_rows, cleaned_df,
          missing_packages, steps, requested, examined, source_url, source_file,
          india_df>>

cleaningVars == <<before, outlier_summary, original_rows, cleaned_df>>

setupVars == <<missing_packages, steps>>

loadingVars == <<requested, examined, source_url, source_file, india_df>>

-----------------------------------------------------------------------------
(* Bounds of the model *)

MaxRows == 3
SampleRecords == 2

-----------------------------------------------------------------------------
(* Cells, rows, tables *)

Null == <<>>
Val(v) == <<v>>
None == [none |-> TRUE]
NoError == [type |-> "none"]
KeyError(k, where) == [type |-> "KeyError", key |-> k, in |-> where]
IsError(x) == "type" \in DOMAIN x
IsTable(x) == "rows" \in DOMAIN x

Range(s) == {s[i] : i \in 1..Len(s)}
HasCol(t, c) == c \in Range(t.cols)
Column(t, c) == [i \in 1..Len(t.rows) |-> t.rows[i][c]]
Table(cols, rows) == [cols |-> cols, rows |-> rows]

RECURSIVE Concat(_)
Concat(ss) == IF ss = <<>> THEN <<>> ELSE Head(ss) \o Concat(Tail(ss))

RECURSIVE Sum(_)
Sum(s) == IF s = <<>> THEN 0 ELSE Head(s) + Sum(Tail(s))

\* All sequences over S of length 0..n
SeqsUpTo(S, n) == UNION {[1..k -> S] : k \in 0..n}

-----------------------------------------------------------------------------
(* create_dimension_tables *)

\* drop_duplicates(keep='last'): the last occurrence of each value
UniqueKeepLast(s) ==
    LET keep == {i \in 1..Len(s) : \A j \in (i+1)..Len(s) : s[j] # s[i]}
        F[i \in 0..Len(s)] ==
            IF i = 0 THEN <<>>
            ELSE IF i \in keep THEN Append(F[i-1], s[i]) ELSE F[i-1]
    IN F[Len(s)]

\* The column as it is, duplicates included
NoDedup(s) == s

\* Series.drop_duplicates() / Series.unique(): first occurrence of each value,
\* in order of appearance; missing values are equal to each other.
Unique(s) ==
    LET F[i \in 0..Len(s)] ==
            IF i = 0 THEN <<>>
            ELSE LET seen == F[i-1]
                 IN IF s[i] \in Range(seen) THEN seen ELSE Append(seen, s[i])
    IN F[Len(s)]

\* df[[key]].drop_duplicates().reset_index(drop=True), then the identifier
\* column range(1, len+1), then the column order [id, key].
DimensionOn(t, key, id) ==
    LET u == Unique(Column(t, key))
    IN Table(<<id, key>>,
             [i \in 1..Len(u) |-> [c \in {id, key} |-> IF c = id THEN Val(i) ELSE u[i]]])

Orderings(S) ==
    {p \in [1..Cardinality(S) -> S] : \A i, j \in 1..Cardinality(S) : p[i] = p[j] => i = j}

Less(a, b) == a[1] < b[1]

\* sorted(values): ascending; NaN compares false with everything, so a list
\* holding NaN may come back in any order.
SortedOutcomes(S) ==
    IF Null \in S THEN Orderings(S)
    ELSE {p \in Orderings(S) : \A i, j \in 1..Cardinality(S) : i < j => Less(p[i], p[j])}

\* f"{year//10*10}s": the text of the decade, then "s".  A year column that
\* holds a missing value holds floats, and a float prints as "2010.0", NaN
\* as "nan".
Decade(y, float) ==
    [digits |-> IF y = Null THEN Null ELSE Val((y[1] \div 10) * 10),
     point  |-> float,
     suffix |-> "s"]

DateColumns == <<"Date_ID", "Year", "Decade", "IsCurrentYear">>

\* An entry whose identifier is the age of the year, counted from the clock
DateEntryByAge(y, now, float) ==
    [c \in Range(DateColumns) |->
        CASE c = "Date_ID" -> IF y = Null THEN Null ELSE Val(now - y[1])
          [] c = "Year" -> y
          [] c = "Decade" -> Val(Decade(y, float))
          [] c = "IsCurrentYear" -> Val(y = Val(now))]

DateEntry(y, now, float) ==
    [c \in Range(DateColumns) |->
        CASE c = "Date_ID" -> y
          [] c = "Year" -> y
          [] c = "Decade" -> Val(Decade(y, float))
          [] c = "IsCurrentYear" -> Val(y = Val(now))]

\* pd.DataFrame(date_data): a list of dicts gives their keys as columns, an
\* empty list gives a table without columns.
DateDimension(years, now) ==
    IF years = <<>> THEN Table(<<>>, <<>>)
    ELSE Table(DateColumns,
               [i \in 1..Len(years) |-> DateEntry(years[i], now, Null \in Range(years))])

DimensionColumns == <<"State_Name", "Crop", "Season", "Crop_Year">>

MissingDimensionColumns(t) ==
    SelectSeq(DimensionColumns, LAMBDA c : ~HasCol(t, c))

\* The dimension tables for each order sorted() can give the years.
CreateDimensionTables(t, now) ==
    IF MissingDimensionColumns(t) # <<>>
    THEN {KeyError(Head(MissingDimensionColumns(t)), "create_dimension_tables")}
    ELSE {[states  |-> DimensionOn(t, "State_Name", "State_ID"),
           crops   |-> DimensionOn(t, "Crop", "Crop_ID"),
           seasons |-> DimensionOn(t, "Season", "Season_ID"),
           dates   |-> DateDimension(years, now)] :
             years \in SortedOutcomes(Range(Unique(Column(t, "Crop_Year"))))}

-----------------------------------------------------------------------------
(* create_fact_table *)

\* A join by position: every left row takes the first right row, whatever its key
FirstRowJoin(left, right, left_on, right_on) ==
    LET extra == SelectSeq(right.cols, LAMBDA c : ~HasCol(left, c))
        cols == left.cols \o extra
        Joined(l) ==
            IF right.rows = <<>>
            THEN <<[c \in Range(cols) |-> IF HasCol(left, c) THEN l[c] ELSE Null]>>
            ELSE <<[c \in Range(cols) |-> IF HasCol(left, c) THEN l[c] ELSE right.rows[1][c]]>>
    IN Table(cols, Concat([i \in 1..Len(left.rows) |-> Joined(left.rows[i])]))

\* DataFrame.merge(right, left_on=, right_on=, how='left') on tables whose
\* only shared column is the key: every left row in order, once per right
\* row with an equal key (missing keys match each other), or once with the
\* right columns missing when there is none.
LeftJoin(left, right, left_on, right_on) ==
    LET extra == SelectSeq(right.cols, LAMBDA c : ~HasCol(left, c))
        cols == left.cols \o extra
        Joined(l) ==
            LET matches == SelectSeq(right.rows, LAMBDA r : r[right_on] = l[left_on])
            IN IF matches = <<>>
               THEN <<[c \in Range(cols) |-> IF HasCol(left, c) THEN l[c] ELSE Null]>>
               ELSE [k \in 1..Len(matches) |->
                       [c \in Range(cols) |-> IF HasCol(left, c) THEN l[c] ELSE matches[k][c]]]
    IN Table(cols, Concat([i \in 1..Len(left.rows) |-> Joined(left.rows[i])]))

\* merge raises KeyError when a key column is not in its table.
Merge(left, right, left_on, right_on) ==
    IF IsError(left) THEN left
    ELSE IF ~HasCol(left, left_on) THEN KeyError(left_on, "create_fact_table")
    ELSE IF ~HasCol(right, right_on) THEN KeyError(right_on, "create_fact_table")
    ELSE LeftJoin(left, right, left_on, right_on)

\* frame[columns]: KeyError when a listed column is not in the frame.
Select(t, cols, where) ==
    LET missing == SelectSeq(cols, LAMBDA c : ~HasCol(t, c))
    IN IF IsError(t) THEN t
       ELSE IF missing # <<>> THEN KeyError(Head(missing), where)
       ELSE Table(cols, [i \in 1..Len(t.rows) |-> [c \in Range(cols) |-> t.rows[i][c]]])

fact_columns ==
    <<"State_ID", "Crop_ID", "Season_ID", "Date_ID",
      "District_Name", "Area_Hectares", "Production_Tonnes",
      "Yield_Per_Hectare", "Temperature_Avg", "Rainfall_MM">>

CreateFactTable(t, dims) ==
    LET m1 == Merge(t, dims.states, "State_Name", "State_Name")
        m2 == Merge(m1, dims.crops, "Crop", "Crop")
        m3 == Merge(m2, dims.seasons, "Season", "Season")
        m4 == Merge(m3, dims.dates, "Crop_Year", "Year")
    IN Select(m4, fact_columns, "create_fact_table")

-----------------------------------------------------------------------------
(* create_summary_tables *)

\* Strings in ascending order, as Python compares them.
\* The strings of the model, in the order Python compares them
Lexicon ==
    <<" rice", "A", "B", "Corn", "D00", "D01", "D02", "D03", "D04", "D05", "D06", "D07",
      "D08", "D09", "D10", "D11", "D12", "Haryana", "Kharif", "Maize", "Nan", "Punjab", "Rabi",
      "Rice", "Unknown", "Wheat", "nan">>
Rank(str) == CHOOSE i \in 1..Len(Lexicon) : Lexicon[i] = str
StrLess(a, b) == Rank(a[1]) < Rank(b[1])

Present(cells) == SelectSeq(cells, LAMBDA c : c # Null)
Values(cells) == [i \in 1..Len(Present(cells)) |-> Present(cells)[i][1]]

\* a / b cut to an integer instead of rounded (b > 0)
TruncDiv(a, b) == a \div b

\* a / b rounded to the nearest integer, halves to the even one (b > 0)
RoundDiv(a, b) ==
    LET q == a \div b
        r == a % b
    IN IF 2 * r < b THEN q
       ELSE IF 2 * r > b THEN q + 1
       ELSE IF q % 2 = 0 THEN q ELSE q + 1

\* (num / den).round(3), in thousandths
Round3(num, den) == RoundDiv(1000 * num, den)

\* 'sum': missing values are skipped; 'mean': over the values present.
\* unit is 1 for a column in whole units, 1000 for one in thousandths.
AggSum(cells, unit) == Val(Round3(Sum(Values(cells)), unit))
AggMean(cells, unit) ==
    IF Present(cells) = <<>> THEN Null
    ELSE Val(Round3(Sum(Values(cells)), unit * Len(Present(cells))))
AggMax(cells) ==
    IF Present(cells) = <<>> THEN Null
    ELSE Val(CHOOSE m \in Range(Values(cells)) : \A v \in Range(Values(cells)) : v <= m)
AggNunique(cells) == Val(Cardinality(Range(Present(cells))))

Squares(vs) == [i \in 1..Len(vs) |-> vs[i] * vs[i]]

\* 'std' (ddof = 1) of values in thousandths, rounded to thousandths:
\* sqrt((n * sum(w^2) - sum(w)^2) / (n * (n - 1))) for w the distances of the
\* values from the smallest one; missing below two values.
AggStd(cells) ==
    LET vs == Values(cells)
        n == Len(vs)
        low == CHOOSE m \in Range(vs) : \A v \in Range(vs) : m <= v
        ws == [i \in 1..n |-> vs[i] - low]
        spread == CHOOSE m \in Range(ws) : \A w \in Range(ws) : w <= m
        N == n * Sum(Squares(ws)) - Sum(ws) * Sum(ws)
        D == n * (n - 1)
    IN IF n < 2 THEN Null
       ELSE Val(CHOOSE k \in 0..spread :
                    /\ (k = 0 \/ (2*k - 1) * (2*k - 1) * D <= 4 * N)
                    /\ 4 * N < (2*k + 1) * (2*k + 1) * D)

\* The keys in the order they first appear (a groupby that does not sort)
GroupKeysAsSeen(t, key, numeric) == Unique(Present(Column(t, key)))

\* groupby([key]): one group for each value of the key, in ascending order;
\* rows whose key is missing belong to no group (dropna defaults to True).
GroupKeys(t, key, numeric) ==
    LET S == Range(Column(t, key)) \ {Null}
    IN CHOOSE p \in Orderings(S) :
           \A i, j \in 1..Len(p) :
               i < j => IF numeric THEN Less(p[i], p[j]) ELSE StrLess(p[i], p[j])

Group(t, key, k) == Table(t.cols, SelectSeq(t.rows, LAMBDA r : r[key] = k))

\* groupby([key]).agg(...) raises KeyError for a column the table lacks.
MissingOf(t, cols) == SelectSeq(cols, LAMBDA c : ~HasCol(t, c))

state_summary_columns ==
    <<"State_Name", "Total_Area", "Avg_Area", "Total_Production", "Avg_Production",
      "Avg_Yield", "Yield_StdDev", "Crop_Diversity">>

StateSummaryRow(g, k) ==
    LET area == Column(g, "Area_Hectares")
        production == Column(g, "Production_Tonnes")
        yield == Column(g, "Yield_Per_Hectare")
    IN [c \in Range(state_summary_columns) |->
           CASE c = "State_Name" -> k
             [] c = "Total_Area" -> AggSum(area, 1)
             [] c = "Avg_Area" -> AggMean(area, 1)
             [] c = "Total_Production" -> AggSum(production, 1)
             [] c = "Avg_Production" -> AggMean(production, 1)
             [] c = "Avg_Yield" -> AggMean(yield, 1000)
             [] c = "Yield_StdDev" -> AggStd(yield)
             [] c = "Crop_Diversity" -> AggNunique(Column(g, "Crop"))]

StateSummary(t) ==
    LET need == <<"State_Name", "Area_Hectares", "Production_Tonnes", "Yield_Per_Hectare", "Crop">>
        keys == GroupKeys(t, "State_Name", FALSE)
    IN IF MissingOf(t, need) # <<>>
       THEN KeyError(Head(MissingOf(t, need)), "create_summary_tables")
       ELSE Table(state_summary_columns,
                  [i \in 1..Len(keys) |-> StateSummaryRow(Group(t, "State_Name", keys[i]), keys[i])])

crop_summary_columns ==
    <<"Crop", "Total_Area", "Avg_Area", "Total_Production", "Avg_Production",
      "Avg_Yield", "Max_Yield", "States_Count">>

CropSummaryRow(g, k) ==
    LET area == Column(g, "Area_Hectares")
        production == Column(g, "Production_Tonnes")
        yield == Column(g, "Yield_Per_Hectare")
    IN [c \in Range(crop_summary_columns) |->
           CASE c = "Crop" -> k
             [] c = "Total_Area" -> AggSum(area, 1)
             [] c = "Avg_Area" -> AggMean(area, 1)
             [] c = "Total_Production" -> AggSum(production, 1)
             [] c = "Avg_Production" -> AggMean(production, 1)
             [] c = "Avg_Yield" -> AggMean(yield, 1000)
             [] c = "Max_Yield" -> AggMax(yield)
             [] c = "States_Count" -> AggNunique(Column(g, "State_Name"))]

CropSummary(t) ==
    LET need == <<"Crop", "Area_Hectares", "Production_Tonnes", "Yield_Per_Hectare", "State_Name">>
        keys == GroupKeys(t, "Crop", FALSE)
    IN IF MissingOf(t, need) # <<>>
       THEN KeyError(Head(MissingOf(t, need)), "create_summary_tables")
       ELSE Table(crop_summary_columns,
                  [i \in 1..Len(keys) |-> CropSummaryRow(Group(t, "Crop", keys[i]), keys[i])])

yearly_trends_columns ==
    <<"Crop_Year", "Area_Hectares", "Production_Tonnes", "Yield_Per_Hectare">>

YearlyTrendsRow(g, k) ==
    LET area == Column(g, "Area_Hectares")
        production == Column(g, "Production_Tonnes")
        yield == Column(g, "Yield_Per_Hectare")
    IN [c \in Range(yearly_trends_columns) |->
           CASE c = "Crop_Year" -> k
             [] c = "Area_Hectares" -> AggSum(area, 1)
             [] c = "Production_Tonnes" -> AggSum(production, 1)
             [] c = "Yield_Per_Hectare" -> AggMean(yield, 1000)]

YearlyTrends(t) ==
    LET need == <<"Crop_Year", "Area_Hectares", "Production_Tonnes", "Yield_Per_Hectare">>
        keys == GroupKeys(t, "Crop_Year", TRUE)
    IN IF MissingOf(t, need) # <<>>
       THEN KeyError(Head(MissingOf(t, need)), "create_summary_tables")
       ELSE Table(yearly_trends_columns,
                  [i \in 1..Len(keys) |-> YearlyTrendsRow(Group(t, "Crop_Year", keys[i]), keys[i])])

\* The three summaries, or the first exception raised on the way.
CreateSummaryTables(t) ==
    LET state_summary == StateSummary(t)
        crop_summary == CropSummary(t)
        yearly_trends == YearlyTrends(t)
    IN IF IsError(state_summary) THEN state_summary
       ELSE IF IsError(crop_summary) THEN crop_summary
       ELSE IF IsError(yearly_trends) THEN yearly_trends
       ELSE [state_summary |-> state_summary,
             crop_summary  |-> crop_summary,
             yearly_trends |-> yearly_trends]

-----------------------------------------------------------------------------
(* create_sample_agriculture_data and load_cleaned_data *)

SourceColumns ==
    <<"State_Name", "District_Name", "Crop_Year", "Season", "Crop",
      "Area_Hectares", "Production_Tonnes", "Yield_Per_Hectare",
      "Temperature_Avg", "Rainfall_MM">>

SourceRow(district, s, y, se, c, a, p, yl) ==
    [col \in Range(SourceColumns) |->
        CASE col = "State_Name" -> s
          [] col = "District_Name" -> Val(district)
          [] col = "Crop_Year" -> y
          [] col = "Season" -> se
          [] col = "Crop" -> c
          [] col = "Area_Hectares" -> a
          [] col = "Production_Tonnes" -> p
          [] col = "Yield_Per_Hectare" -> yl
          [] col = "Temperature_Avg" -> Val(25)
          [] col = "Rainfall_MM" -> Val(148)]

\* A quotient above 20 is overwritten by the next np.random.uniform(5, 15) draw.
CappedYield(ratio, draw) == IF ratio > 20000 THEN draw ELSE ratio

\* The ranks, among the rows whose yield is above 20, of those rows
OverRank(draws, i) ==
    Cardinality({j \in 1..i :
        Round3(draws[j].production, draws[j].area) > 20000})

\* (Production_Tonnes / Area_Hectares).round(3), then the overwrite
SampleYield(g, i) ==
    LET k == IF OverRank(g.rows, i) = 0 THEN 1 ELSE OverRank(g.rows, i)
    IN CappedYield(Round3(g.rows[i].production, g.rows[i].area), g.uniform[k])

CreateSampleAgricultureData(g) ==
    Table(SourceColumns,
          [i \in 1..Len(g.rows) |->
              SourceRow(((i - 1) % 50) + 1, Val(g.rows[i].state), Val(2018), Val("Kharif"),
                        Val(g.rows[i].crop), Val(g.rows[i].area), Val(g.rows[i].production),
                        Val(SampleYield(g, i)))])

\* A loader whose except branch returns a table without rows
EmptyOnReadError(status, file, g) ==
    IF status = "ok" THEN file
    ELSE IF status = "unreadable" THEN Table(SourceColumns, <<>>)
    ELSE CreateSampleAgricultureData(g)

\* The table of the file when a path is given, exists and is read; the
\* sample table when there is no such path or read_csv raises.
LoadCleanedData(status, file, g) ==
    IF status = "ok" THEN file ELSE CreateSampleAgricultureData(g)

-----------------------------------------------------------------------------
(* Inputs *)

StateNames == {Val("A"), Val("B")}
NowYears == {2020, 2026}
Measures == {<<10, 100, "Rice">>, <<20, 200, "Wheat">>, <<30, 150, "Rice">>}
StateYears ==
    {<<Val("A"), Val(2018)>>, <<Val("A"), Val(2020)>>, <<Val("B"), Val(2020)>>,
     <<Null, Val(2018)>>, <<Val("B"), Null>>}
SeasonCrops ==
    {<<Val("Kharif"), Val("Rice")>>, <<Val("Kharif"), Val("Wheat")>>,
     <<Val("Rabi"), Val("Wheat")>>, <<Null, Val("Rice")>>, <<Val("Rabi"), Null>>}

\* The yield column of a source file: production / area, missing for area 0
FileYield(a, p) == IF a = 0 THEN Null ELSE Val((1000 * p) \div a)

Numbered(rows) ==
    [i \in 1..Len(rows) |-> [rows[i] EXCEPT !["District_Name"] = Val(i)]]

\* Files whose state and year columns vary (missing values included)
StateYearRows ==
    {SourceRow(0, k[1], k[2], Val("Kharif"), Val("Rice"), Val(10), Val(100), Val(10000)) :
        k \in StateYears}

\* The rows of the tables the builders are called on directly: every year
\* is present
DirectRows == {r \in StateYearRows : r["Crop_Year"] # Null}

\* Files whose crop and season columns vary (missing values included)
CropSeasonRows ==
    {SourceRow(0, Val("A"), Val(2018), k[1], k[2], Val(10), Val(100), Val(10000)) :
        k \in SeasonCrops}

\* Files whose state, crop, area and production columns vary
MeasureRows ==
    {SourceRow(0, s, Val(2018), Val("Kharif"), Val(m[3]), Val(m[1]), Val(m[2]), FileYield(m[1], m[2])) :
        s \in StateNames, m \in Measures}

TablesOver(rows) == {Table(SourceColumns, Numbered(r)) : r \in SeqsUpTo(rows, MaxRows)}

KeyTables == TablesOver(StateYearRows) \cup TablesOver(CropSeasonRows)

Without(t, col) ==
    Table(SelectSeq(t.cols, LAMBDA c : c # col),
          [i \in 1..Len(t.rows) |-> [c \in Range(t.cols) \ {col} |-> t.rows[i][c]]])

Renamed(t, old, new) ==
    Table([i \in 1..Len(t.cols) |-> IF t.cols[i] = old THEN new ELSE t.cols[i]],
          [i \in 1..Len(t.rows) |->
              [c \in (Range(t.cols) \ {old}) \cup {new} |->
                  IF c = new THEN t.rows[i][old] ELSE t.rows[i][c]]])

\* Files that lack a column, or name area and production by their aliases
ShortTables == {Table(SourceColumns, Numbered(r)) : r \in SeqsUpTo(StateYearRows, 1)}
VariantTables ==
    {Without(t, c) : t \in ShortTables, c \in Range(SourceColumns)}
    \cup {Renamed(Renamed(t, "Area_Hectares", "Area"), "Production_Tonnes", "Production") :
            t \in ShortTables}
    \cup {Without(Without(t, "Temperature_Avg"), "Rainfall_MM") : t \in ShortTables}

CsvTables == KeyTables \cup TablesOver(MeasureRows) \cup VariantTables

SampleStates == {"Punjab", "Haryana"}
SampleCrops == {"Rice"}
SampleMeasures == {<<3, 10>>, <<4, 10>>, <<3, 100>>}
UniformDraws == {5000, 12345}

SampleDraws ==
    {[rows |-> r, uniform |-> u] :
        r \in UNION {[1..k -> {[state |-> s, crop |-> c, area |-> m[1], production |-> m[2]] :
                                  s \in SampleStates, c \in SampleCrops, m \in SampleMeasures}] :
                        k \in 1..SampleRecords},
        u \in [1..SampleRecords -> UniformDraws]}

NoDraws == [rows |-> <<>>, uniform |-> <<>>]

\* The table made of the rows of t at the positions in keep, in order
RowsAt(t, keep) ==
    LET F[i \in 0..Len(t.rows)] ==
            IF i = 0 THEN <<>>
            ELSE IF i \in keep THEN Append(F[i-1], t.rows[i]) ELSE F[i-1]
    IN Table(t.cols, F[Len(t.rows)])

-----------------------------------------------------------------------------
(* PowerBIDataPreprocessor.process_all, and direct calls of its builders *)

\* The setup script has not been started
SetupIdle ==
    /\ missing_packages = <<>>
    /\ steps = <<>>

\* The loading script has not been started
LoadingIdle ==
    /\ requested = <<>>
    /\ examined = <<>>
    /\ source_url = "unassigned"
    /\ source_file = "unassigned"
    /\ india_df = None

Init ==
    /\ SetupIdle
    /\ LoadingIdle
    /\ \/ /\ caller = "process_all"
          /\ srcStatus = "ok"
          /\ csv \in CsvTables
          /\ rng = NoDraws
          /\ now_year \in NowYears
       \/ /\ caller = "process_all"
          /\ srcStatus \in {"no_path", "missing", "unreadable"}
          /\ csv = None
          /\ rng \in SampleDraws
          /\ now_year = 2026
       \/ /\ caller = "direct"
          /\ srcStatus = "ok"
          /\ csv \in TablesOver(DirectRows)
          /\ rng = NoDraws
          /\ now_year = 2026
    /\ pc = "start"
    /\ df = None
    /\ dimdf = None
    /\ dimensions = None
    /\ fact_table = None
    /\ summaries = None
    /\ exported = {}
    /\ model_info = None
    /\ error = NoError
    /\ previous = None
    /\ before = None
    /\ outlier_summary = None
    /\ original_rows = 0
    /\ cleaned_df = None

\* A builder that numbers the rows of the table it is given, in place
NumberedInPlace(t) ==
    Table(Append(t.cols, "State_ID"),
          [i \in 1..Len(t.rows) |->
              [c \in Range(t.cols) \cup {"State_ID"} |->
                  IF c = "State_ID" THEN Val(i) ELSE t.rows[i][c]]])

\* The source table after create_dimension_tables: df[[col]] and
\* drop_duplicates() give new frames, the identifier columns are assigned
\* to those, and sorted(df['Crop_Year'].unique()) builds a new list
SourceAfterDimensions(t) == t

\* The source table after create_fact_table: the merges work on df.copy()
\* and each returns a new frame
SourceAfterFact(t) == t

\* The dimension tables after create_fact_table: merge does not change its
\* right operand
DimensionsAfterFact(dims) == dims

\* The source table after create_summary_tables: groupby().agg() returns a
\* new frame, which is the one rounded, renamed and re-indexed
SourceAfterSummaries(t) == t

Raise(e) ==
    /\ pc' = "raised"
    /\ error' = e

\* Step 1 of process_all
LoadStep ==
    /\ caller = "process_all"
    /\ pc = "start"
    /\ df' = LoadCleanedData(srcStatus, csv, rng)
    /\ pc' = "loaded"
    /\ UNCHANGED cleaningVars
    /\ UNCHANGED <<setupVars, loadingVars>>
    /\ UNCHANGED <<previous, caller, srcStatus, csv, rng, now_year, dimdf, dimensions,
                   fact_table, summaries, exported, model_info, error>>

\* sorted() is a function of its argument: in a second run on the same
\* table the years come back in the order they came back in the first.
SortsAsBefore(d) ==
    IF previous = None \/ IsError(d) THEN TRUE
    ELSE Column(d.dates, "Year") = Column(previous.dimensions.dates, "Year")

\* Step 2 of process_all
DimensionStep ==
    /\ pc = "loaded"
    /\ df' = SourceAfterDimensions(df)
    /\ dimdf' = SourceAfterDimensions(df)
    /\ \E d \in CreateDimensionTables(df, now_year) :
          /\ SortsAsBefore(d)
          /\ IF IsError(d)
             THEN Raise(d) /\ UNCHANGED dimensions
             ELSE dimensions' = d /\ pc' = "dims" /\ UNCHANGED error
    /\ UNCHANGED cleaningVars
    /\ UNCHANGED <<setupVars, loadingVars>>
    /\ UNCHANGED <<previous, caller, srcStatus, csv, rng, now_year,
                   fact_table, summaries, exported, model_info>>

\* create_dimension_tables called on its own, with a table that holds some
\* of the rows of the table the fact table is then built from
DirectDimensionCall ==
    /\ caller = "direct"
    /\ pc = "start"
    /\ df' = csv
    /\ \E keep \in SUBSET (1..Len(csv.rows)) :
          /\ IF previous = None THEN TRUE ELSE RowsAt(csv, keep) = previous.dimdf
          /\ dimdf' = SourceAfterDimensions(RowsAt(csv, keep))
          /\ \E d \in CreateDimensionTables(RowsAt(csv, keep), now_year) :
                /\ SortsAsBefore(d)
                /\ IF IsError(d)
                   THEN Raise(d) /\ UNCHANGED dimensions
                   ELSE dimensions' = d /\ pc' = "dims" /\ UNCHANGED error
    /\ UNCHANGED cleaningVars
    /\ UNCHANGED <<setupVars, loadingVars>>
    /\ UNCHANGED <<previous, caller, srcStatus, csv, rng, now_year,
                   fact_table, summaries, exported, model_info>>

\* Step 3 of process_all
FactStep ==
    /\ pc = "dims"
    /\ LET f == CreateFactTable(df, dimensions)
       IN IF IsError(f)
          THEN Raise(f) /\ UNCHANGED fact_table
          ELSE fact_table' = f /\ pc' = "fact" /\ UNCHANGED error
    /\ df' = SourceAfterFact(df)
    /\ dimensions' = DimensionsAfterFact(dimensions)
    /\ UNCHANGED cleaningVars
    /\ UNCHANGED <<setupVars, loadingVars>>
    /\ UNCHANGED <<previous, caller, srcStatus, csv, rng, now_year, dimdf,
                   summaries, exported, model_info>>

\* Step 4 of process_all
SummaryStep ==
    /\ caller = "process_all"
    /\ pc = "fact"
    /\ LET s == CreateSummaryTables(df)
       IN IF IsError(s)
          THEN Raise(s) /\ UNCHANGED summaries
          ELSE summaries' = s /\ pc' = "summaries" /\ UNCHANGED error
    /\ df' = SourceAfterSummaries(df)
    /\ UNCHANGED cleaningVars
    /\ UNCHANGED <<setupVars, loadingVars>>
    /\ UNCHANGED <<previous, caller, srcStatus, csv, rng, now_year, dimdf, dimensions,
                   fact_table, exported, model_info>>

\* A description that counts the columns where the rows are meant
DescribeShape(t) == [rows |-> Len(t.cols), columns |-> t.cols]

\* {"rows": len(df), "columns": list(df.columns)}
Describe(t) == [rows |-> Len(t.rows), columns |-> t.cols]

DimensionNames == {"states", "crops", "seasons", "dates"}
SummaryNames == {"state_summary", "crop_summary", "yearly_trends"}

ExportedFiles ==
    {"agriculture_data_powerbi.csv", "dim_states.csv", "dim_crops.csv",
     "dim_seasons.csv", "dim_dates.csv", "fact_agriculture.csv",
     "state_summary.csv", "crop_summary.csv", "yearly_trends.csv",
     "data_model_info.json"}

CreateDataModelDocs(dims, fact, summ) ==
    [dimensions     |-> [n \in DimensionNames |-> Describe(dims[n])],
     fact_table     |-> Describe(fact),
     summary_tables |-> [n \in SummaryNames |-> Describe(summ[n])]]

\* An export that does not wait for the summaries
ExportEarly ==
    /\ caller = "process_all"
    /\ pc = "fact"
    /\ exported' = ExportedFiles
    /\ pc' = "done"
    /\ UNCHANGED cleaningVars
    /\ UNCHANGED <<setupVars, loadingVars>>
    /\ UNCHANGED <<previous, caller, srcStatus, csv, rng, now_year, df, dimdf, dimensions,
                   fact_table, summaries, model_info, error>>

\* Step 5 of process_all: export_for_powerbi and create_data_model_docs
ExportStep ==
    /\ caller = "process_all"
    /\ pc = "summaries"
    /\ exported' = ExportedFiles
    /\ model_info' = CreateDataModelDocs(dimensions, fact_table, summaries)
    /\ pc' = "done"
    /\ UNCHANGED cleaningVars
    /\ UNCHANGED <<setupVars, loadingVars>>
    /\ UNCHANGED <<previous, caller, srcStatus, csv, rng, now_year, df, dimdf, dimensions,
                   fact_table, summaries, error>>

\* The pipeline is run a second time on the same source: the file and the
\* seed of the sample are what they were, the clock has not gone back.
RunAgain ==
    /\ previous = None
    /\ \/ caller = "process_all" /\ pc = "done"
       \/ caller = "direct" /\ pc = "fact"
    /\ previous' = [df |-> df, dimdf |-> dimdf, dimensions |-> dimensions,
                    fact_table |-> fact_table, now_year |-> now_year]
    /\ now_year' \in {y \in NowYears : y >= now_year}
    /\ pc' = "start"
    /\ df' = None
    /\ dimdf' = None
    /\ dimensions' = None
    /\ fact_table' = None
    /\ summaries' = None
    /\ exported' = {}
    /\ model_info' = None
    /\ UNCHANGED <<caller, srcStatus, csv, rng, error, before, outlier_summary,
                   original_rows, cleaned_df>>
    /\ UNCHANGED <<setupVars, loadingVars>>

Next ==
    \/ LoadStep
    \/ DimensionStep
    \/ DirectDimensionCall
    \/ FactStep
    \/ SummaryStep
    \/ ExportStep
    \/ RunAgain

Spec == Init /\ [][Next]_vars

-----------------------------------------------------------------------------
(* The agriculture cleaning script: step 5, numerical validation *)

CleanColumns ==
    <<"State_Name", "District_Name", "Crop_Year", "Season", "Crop", "Area", "Production">>

CleanRow(a, p) ==
    [col \in Range(CleanColumns) |->
        CASE col = "State_Name" -> Val("A")
          [] col = "District_Name" -> Val("D00")
          [] col = "Crop_Year" -> Val(2018)
          [] col = "Season" -> Val("Kharif")
          [] col = "Crop" -> Val("Rice")
          [] col = "Area" -> Val(a)
          [] col = "Production" -> Val(p)]

Abs(x) == IF x < 0 THEN -x ELSE x

\* A validation that removes the rows holding a negative value
DropNegative(t, col) == Table(t.cols, SelectSeq(t.rows, LAMBDA r : r[col][1] >= 0))

\* df[col] = df[col].abs() when the column holds a negative value
AbsColumn(t, col) ==
    IF \E i \in 1..Len(t.rows) : t.rows[i][col][1] < 0
    THEN Table(t.cols, [i \in 1..Len(t.rows) |->
                          [t.rows[i] EXCEPT ![col] = Val(Abs(t.rows[i][col][1]))]])
    ELSE t

WithColumn(t, col, cells) ==
    Table(IF HasCol(t, col) THEN t.cols ELSE Append(t.cols, col),
          [i \in 1..Len(t.rows) |->
              [c \in Range(t.cols) \cup {col} |-> IF c = col THEN cells[i] ELSE t.rows[i][c]]])

\* Production / (Area + 0.001), as an exact fraction
Productivity(p, a) == Val([num |-> 1000 * p, den |-> 1000 * a + 1])

ValidateNumerical(t) ==
    LET t1 == IF HasCol(t, "Area") THEN AbsColumn(t, "Area") ELSE t
        t2 == IF HasCol(t1, "Production") THEN AbsColumn(t1, "Production") ELSE t1
    IN IF HasCol(t2, "Area") /\ HasCol(t2, "Production")
       THEN WithColumn(t2, "Productivity",
                       [i \in 1..Len(t2.rows) |->
                           Productivity(t2.rows[i]["Production"][1], t2.rows[i]["Area"][1])])
       ELSE t2

-----------------------------------------------------------------------------
(* The agriculture cleaning script: steps 2 to 4 *)

\* column_mapping, in the order of the dict; a name is matched as written
column_mapping ==
    <<<<"State_Name", "State_Name">>, <<"State", "State_Name">>, <<"state", "State_Name">>,
      <<"District_Name", "District_Name">>, <<"District", "District_Name">>,
      <<"district", "District_Name">>,
      <<"Crop_Year", "Crop_Year">>, <<"Year", "Crop_Year">>, <<"year", "Crop_Year">>,
      <<"Season", "Season">>, <<"season", "Season">>,
      <<"Crop", "Crop">>, <<"crop", "Crop">>,
      <<"Area", "Area">>, <<"area", "Area">>, <<"Area_hectares", "Area">>,
      <<"Production", "Production">>, <<"production", "Production">>,
      <<"Production_tonnes", "Production">>>>

\* df.rename(columns={old: new}): the column takes the new name even when
\* the table has a column of that name already.  Two columns of one name
\* cannot be told apart by name: a row keeps one cell under the name, and
\* every later access of the name raises (DuplicateNames).
RenameColumn(t, old, new) ==
    Table([i \in 1..Len(t.cols) |-> IF t.cols[i] = old THEN new ELSE t.cols[i]],
          [i \in 1..Len(t.rows) |->
              [c \in (Range(t.cols) \ {old}) \cup {new} |->
                  IF c = new /\ ~HasCol(t, new) THEN t.rows[i][old] ELSE t.rows[i][c]]])

\* for old_name, new_name in column_mapping.items(): rename when the table
\* has old_name and the two names differ
StandardizeColumns(t) ==
    LET F[k \in 0..Len(column_mapping)] ==
            IF k = 0 THEN t
            ELSE LET old == column_mapping[k][1]
                     new == column_mapping[k][2]
                     renamed == F[k-1]
                 IN IF HasCol(renamed, old) /\ old # new
                    THEN RenameColumn(renamed, old, new)
                    ELSE renamed
    IN F[Len(column_mapping)]

DuplicateNames(t) ==
    {c \in Range(t.cols) : Cardinality({i \in 1..Len(t.cols) : t.cols[i] = c}) > 1}

\* str(value).strip().title(), for the strings of the model; the missing
\* value becomes the text "nan", then "Nan"
StripTitle(cell) ==
    IF cell = Null THEN Val("Nan")
    ELSE IF cell = Val(" rice") THEN Val("Rice")
    ELSE IF cell = Val("nan") THEN Val("Nan")
    ELSE cell

\* The entries of the replacement dicts that change a value
state_replacements == <<<<Val("Nan"), Null>>>>
crop_replacements ==
    <<<<Val("Corn"), Val("Maize")>>, <<Val("Nan"), Null>>>>
season_replacements == <<<<Val("Nan"), Null>>>>

Replace(cell, replacements) ==
    IF \E k \in 1..Len(replacements) : replacements[k][1] = cell
    THEN replacements[CHOOSE k \in 1..Len(replacements) : replacements[k][1] = cell][2]
    ELSE cell

\* df[col].astype(str).str.strip().str.title(), then .replace(replacements)
CleanColumn(t, col, replacements) ==
    IF HasCol(t, col)
    THEN Table(t.cols, [i \in 1..Len(t.rows) |->
                          [t.rows[i] EXCEPT ![col] = Replace(StripTitle(t.rows[i][col]), replacements)]])
    ELSE t

\* STEP 3: State_Name, Crop and Season are stripped, title-cased and
\* replaced; df[col] of a name two columns carry is a frame, which has no
\* .str accessor.
CleanCategorical(t) ==
    IF DuplicateNames(t) \cap {"State_Name", "Crop", "Season"} # {}
    THEN [type |-> "AttributeError", key |-> "str", in |-> "step3"]
    ELSE CleanColumn(CleanColumn(CleanColumn(t, "State_Name", state_replacements),
                                 "Crop", crop_replacements),
                     "Season", season_replacements)

MissingCount(t, col) == Cardinality({i \in 1..Len(t.rows) : t.rows[i][col] = Null})

\* A threshold test that lets the limit itself pass
MissingUpTo(t, col, limit) == 100 * MissingCount(t, col) <= limit * Len(t.rows)

\* (missing_count / len(df)) * 100 < limit
MissingBelow(t, col, limit) == 100 * MissingCount(t, col) < limit * Len(t.rows)

\* df.dropna(subset=[col], inplace=True)
DropMissing(t, col) == Table(t.cols, SelectSeq(t.rows, LAMBDA r : r[col] # Null))

\* A fill that removes the rows it should fill
DropInsteadOfFill(t, col, value) ==
    Table(t.cols, SelectSeq(t.rows, LAMBDA r : r[col] # Null))

\* df[col].fillna(value, inplace=True)
FillMissing(t, col, value) ==
    Table(t.cols, [i \in 1..Len(t.rows) |->
                     IF t.rows[i][col] = Null THEN [t.rows[i] EXCEPT ![col] = value]
                     ELSE t.rows[i]])

\* Series.mode(): the most frequent values, missing ones not counted, in
\* ascending order; .iloc[0] is the first of them
Count(cells, c) == Cardinality({i \in 1..Len(cells) : cells[i] = c})
Modes(cells) ==
    {c \in Range(Present(cells)) :
        \A d \in Range(Present(cells)) : Count(cells, d) <= Count(cells, c)}
FirstMode(cells) == CHOOSE c \in Modes(cells) : \A d \in Modes(cells) : d = c \/ StrLess(c, d)
ModeOrUnknown(cells) == IF Modes(cells) = {} THEN Val("Unknown") ELSE FirstMode(cells)

\* The numbers of a sequence in ascending order
RECURSIVE SortInts(_)
SortInts(vs) ==
    IF vs = <<>> THEN <<>>
    ELSE LET m == CHOOSE i \in 1..Len(vs) : \A j \in 1..Len(vs) : vs[i] <= vs[j]
         IN <<vs[m]>> \o SortInts([k \in 1..(Len(vs) - 1) |-> IF k < m THEN vs[k] ELSE vs[k + 1]])

\* Series.median() of a column with at least one value: the middle value,
\* or the mean of the two middle values (the numbers of the model are even,
\* so that the mean is a whole number)
Median(cells) ==
    LET vs == SortInts(Values(cells))
        n == Len(vs)
    IN IF n % 2 = 1 THEN vs[(n + 1) \div 2]
       ELSE (vs[n \div 2] + vs[(n \div 2) + 1]) \div 2

\* One pass of the loop of STEP 4 over a column that has missing values
HandleMissingColumn(t, col) ==
    CASE col \in {"State_Name", "District_Name"} ->
             IF MissingBelow(t, col, 10) THEN DropMissing(t, col)
             ELSE FillMissing(t, col, Val("Unknown"))
      [] col \in {"Crop", "Season"} ->
             FillMissing(t, col, ModeOrUnknown(Column(t, col)))
      [] col = "Crop_Year" ->
             FillMissing(t, col, IF Present(Column(t, col)) = <<>> THEN Val(2020)
                                 ELSE Val(Median(Column(t, col))))
      [] col \in {"Area", "Production"} ->
             IF MissingBelow(t, col, 20) THEN FillMissing(t, col, Val(Median(Column(t, col))))
             ELSE DropMissing(t, col)
      [] OTHER -> t

\* The table after the first k passes of the loop `for col in df.columns`;
\* df[col].isnull().sum() of a name two columns carry is a Series, and
\* `if missing_count > 0` on it raises ValueError.
AfterColumns(t, k) ==
    LET F[i \in 0..k] ==
            IF i = 0 THEN t
            ELSE LET handled == F[i-1]
                 IN IF IsError(handled) THEN handled
                    ELSE IF t.cols[i] \in DuplicateNames(t)
                    THEN [type |-> "ValueError", key |-> t.cols[i], in |-> "step4"]
                    ELSE IF MissingCount(handled, t.cols[i]) > 0
                    THEN HandleMissingColumn(handled, t.cols[i])
                    ELSE handled
    IN F[k]

\* STEP 4
HandleMissing(t) == AfterColumns(t, Len(t.cols))

-----------------------------------------------------------------------------
(* The agriculture cleaning script: steps 6 to 8 *)

\* 4 * Series.quantile(q / 4) of the numbers vs, by linear interpolation
\* between the two values around position (q / 4) * (n - 1)
Quantile4(vs, q) ==
    LET sorted == SortInts(vs)
        lo == (q * (Len(vs) - 1)) \div 4
        r == (q * (Len(vs) - 1)) % 4
    IN IF r = 0 THEN 4 * sorted[lo + 1]
       ELSE (4 - r) * sorted[lo + 1] + r * sorted[lo + 2]

\* The rows whose value lies below Q1 - 1.5 * IQR or above Q3 + 1.5 * IQR;
\* the quantiles skip missing values, and no comparison holds of one
OutlierRows(t, col) ==
    LET vs == Values(Column(t, col))
        q1 == Quantile4(vs, 1)
        q3 == Quantile4(vs, 3)
    IN IF vs = <<>> THEN {}
       ELSE {i \in 1..Len(t.rows) :
                /\ t.rows[i][col] # Null
                /\ \/ 8 * t.rows[i][col][1] < 5 * q1 - 3 * q3
                   \/ 8 * t.rows[i][col][1] > 5 * q3 - 3 * q1}

\* The outlier counts of the columns.  Productivity is a quotient of floats:
\* its count is printed and is not part of the model.
OutlierCounts(t, cols) ==
    [c \in {c \in Range(cols) : HasCol(t, c)} |-> Cardinality(OutlierRows(t, c))]

\* outlier_summary: the agriculture script records the columns that have an
\* outlier, the generic script every numeric column
OutlierSummary(t, cols, every) ==
    [c \in {c \in DOMAIN OutlierCounts(t, cols) : every \/ OutlierCounts(t, cols)[c] > 0} |->
        OutlierCounts(t, cols)[c]]

\* A step that drops the rows it found an outlier in
RemoveOutliers(t, cols, every) ==
    LET kept == SelectSeq([i \in 1..Len(t.rows) |-> [row |-> t.rows[i], at |-> i]],
                          LAMBDA e : \A c \in DOMAIN OutlierCounts(t, cols) :
                                         e.at \notin OutlierRows(t, c))
    IN [df |-> Table(t.cols, [i \in 1..Len(kept) |-> kept[i].row]),
        outlier_summary |-> OutlierSummary(t, cols, every)]

\* STEP 6 (STEP 4 of the generic script): the counts are computed and
\* printed, the table is left as it is
DetectOutliers(t, cols, every) ==
    [df |-> t, outlier_summary |-> OutlierSummary(t, cols, every)]

\* A step that removes nothing
KeepDuplicates(t) == t

\* df.drop_duplicates(inplace=True): of the rows equal in every column the
\* first is kept (missing values are equal to each other)
RemoveDuplicates(t) == Table(t.cols, Unique(t.rows))

-----------------------------------------------------------------------------
(* The generic cleaning script *)

CategoricalColumns == {"State_Name", "District_Name", "Season", "Crop"}
NumericColumns == {"Crop_Year", "Area", "Production"}

\* A step that fills whatever the share of missing values
GenericFillAlways(t, col) ==
    IF col \in CategoricalColumns
    THEN FillMissing(t, col, ModeOrUnknown(Column(t, col)))
    ELSE IF col \in NumericColumns /\ Present(Column(t, col)) # <<>>
    THEN FillMissing(t, col, Val(Median(Column(t, col))))
    ELSE t

\* One pass of the loop of STEP 2 over a column that has missing values:
\* above 50% the column is kept as it is, an object column is filled with
\* its mode or 'Unknown', a numeric column with its median
GenericMissingColumn(t, col) ==
    IF 100 * MissingCount(t, col) > 50 * Len(t.rows) THEN t
    ELSE IF col \in CategoricalColumns
    THEN FillMissing(t, col, ModeOrUnknown(Column(t, col)))
    ELSE IF col \in NumericColumns
    THEN FillMissing(t, col, Val(Median(Column(t, col))))
    ELSE t

\* The table after the first k passes of the loop `for col in df.columns`
GenericAfterColumns(t, k) ==
    LET F[i \in 0..k] ==
            IF i = 0 THEN t
            ELSE LET handled == F[i-1]
                 IN IF MissingCount(handled, t.cols[i]) > 0
                    THEN GenericMissingColumn(handled, t.cols[i])
                    ELSE handled
    IN F[k]

GenericHandleMissing(t) == GenericAfterColumns(t, Len(t.cols))

-----------------------------------------------------------------------------
(* Inputs of the cleaning scripts *)

NumericRows == 6
CategoricalRows == 11

CleanAreas == {-10, 0, 10, 30}
CleanProductions == {-100, 150}

\* Tables whose areas and productions vary; equal rows are duplicates
CleanRows == {CleanRow(a, p) : a \in CleanAreas, p \in CleanProductions}
CleanFullTables == {Table(CleanColumns, r) : r \in SeqsUpTo(CleanRows, MaxRows)}
CleanShortTables == {Table(CleanColumns, r) : r \in SeqsUpTo(CleanRows, 1)}

\* The district names of the cleaning tables
Districts ==
    <<"D01", "D02", "D03", "D04", "D05", "D06", "D07", "D08", "D09", "D10", "D11", "D12">>

\* The table whose column col holds the given cells, one district per row
ColumnTable(col, cells) ==
    Table(CleanColumns,
          [i \in 1..Len(cells) |->
              [c \in Range(CleanColumns) |->
                  IF c = col THEN cells[i]
                  ELSE IF c = "District_Name" THEN Val(Districts[i])
                  ELSE CleanRow(10, 100)[c]]])

\* Tables with missing (and far-off) areas or productions
MissingNumericTables ==
    {ColumnTable(col, cells) :
        col \in {"Area", "Production"},
        cells \in SeqsUpTo({Null, Val(10), Val(1000)}, NumericRows)}

CategoryValues(col) ==
    CASE col = "Crop" -> <<Val("Rice"), Val("Wheat")>>
      [] col = "Season" -> <<Val("Kharif"), Val("Rabi")>>
      [] OTHER -> <<Val("A"), Val("B")>>

\* k missing values, then w times the second value, then the first value
CategoryCells(col, n, k, w) ==
    [i \in 1..n |-> IF i <= k THEN Null
                    ELSE IF i <= k + w THEN CategoryValues(col)[2]
                    ELSE CategoryValues(col)[1]]

\* Tables with up to two missing values in a categorical column
MissingCategoricalTables ==
    UNION {{ColumnTable(col, CategoryCells(col, n, k, w)) :
               k \in {k \in 0..2 : k <= n}, w \in {w \in 0..n : w + 2 <= n}} :
           col \in CategoricalColumns, n \in 0..CategoricalRows}

StateAliases == {"State_Name", "State", "state", "STATE", "state_name"}
AreaAliases == {"Area", "area", "AREA", "Area_hectares"}

\* One-row tables whose state and area columns go by other names, or that
\* have a State and a state column
AliasTables ==
    LET base == ColumnTable("Crop", <<Val("Rice")>>)
    IN {Renamed(Renamed(base, "State_Name", st), "Area", ar) :
           st \in StateAliases, ar \in AreaAliases}
       \cup {WithColumn(Renamed(base, "State_Name", "State"), "state", <<Val("B")>>)}

\* One-row tables whose crop is not written the standard way
DirtyTables == {ColumnTable("Crop", <<Val(c)>>) : c \in {" rice", "Corn", "nan"}}

CleanTables ==
    CleanFullTables
    \cup {Without(t, "Area") : t \in CleanShortTables}
    \cup {Without(t, "Production") : t \in CleanShortTables}
    \cup MissingNumericTables \cup MissingCategoricalTables
    \cup AliasTables \cup DirtyTables

GenericTables == CleanFullTables \cup MissingNumericTables \cup MissingCategoricalTables

-----------------------------------------------------------------------------
(* The cleaning scripts as state machines *)

InitClean ==
    /\ SetupIdle
    /\ LoadingIdle
    /\ \/ caller = "cleaning" /\ pc = "step2" /\ df \in CleanTables
       \/ caller = "generic" /\ pc = "gstep2" /\ df \in GenericTables
    /\ srcStatus = "ok"
    /\ csv = None
    /\ rng = NoDraws
    /\ now_year = 2026
    /\ dimdf = None
    /\ dimensions = None
    /\ fact_table = None
    /\ summaries = None
    /\ exported = {}
    /\ model_info = None
    /\ error = NoError
    /\ previous = None
    /\ before = None
    /\ outlier_summary = None
    /\ original_rows = 0
    /\ cleaned_df = None

pipelineVars ==
    <<previous, caller, srcStatus, csv, rng, now_year, dimdf, dimensions,
      fact_table, summaries, exported, model_info>>

\* A step of a cleaning script: the table the step leaves, or the exception
\* that ends the script in its except clause
CleaningStep(from, to, result) ==
    /\ pc = from
    /\ before' = df
    /\ IF IsError(result)
       THEN Raise(result) /\ UNCHANGED df
       ELSE df' = result /\ pc' = to /\ UNCHANGED error
    /\ UNCHANGED pipelineVars
    /\ UNCHANGED <<setupVars, loadingVars>>

\* STEP 2: STANDARDIZE COLUMN NAMES
StandardizeColumnsStep ==
    /\ caller = "cleaning"
    /\ CleaningStep("step2", "step3", StandardizeColumns(df))
    /\ UNCHANGED <<outlier_summary, original_rows, cleaned_df>>

\* STEP 3: CLEAN CATEGORICAL DATA
CleanCategoricalStep ==
    /\ caller = "cleaning"
    /\ CleaningStep("step3", "step4", CleanCategorical(df))
    /\ UNCHANGED <<outlier_summary, original_rows, cleaned_df>>

\* STEP 4: HANDLE MISSING VALUES
HandleMissingStep ==
    /\ caller = "cleaning"
    /\ CleaningStep("step4", "step5", HandleMissing(df))
    /\ original_rows' = Len(df.rows)
    /\ UNCHANGED <<outlier_summary, cleaned_df>>

\* STEP 5: VALIDATE AND CLEAN NUMERICAL DATA
ValidateNumericalStep ==
    /\ caller = "cleaning"
    /\ CleaningStep("step5", "step6", ValidateNumerical(df))
    /\ UNCHANGED <<outlier_summary, original_rows, cleaned_df>>

\* STEP 6: OUTLIER DETECTION
OutlierDetectionStep ==
    /\ caller = "cleaning"
    /\ CleaningStep("step6", "step7", DetectOutliers(df, <<"Area", "Production">>, FALSE).df)
    /\ outlier_summary' = DetectOutliers(df, <<"Area", "Production">>, FALSE).outlier_summary
    /\ UNCHANGED <<original_rows, cleaned_df>>

\* STEP 7: DUPLICATE REMOVAL
RemoveDuplicatesStep ==
    /\ caller = "cleaning"
    /\ CleaningStep("step7", "step8", RemoveDuplicates(df))
    /\ UNCHANGED <<outlier_summary, original_rows, cleaned_df>>

\* len(df) / original_rows raises ZeroDivisionError for a table that had no
\* rows; otherwise the table is stored in cleaned_df
FinalValidation(t, rows) ==
    IF rows = 0 THEN [type |-> "ZeroDivisionError", key |-> "original_rows", in |-> "final"]
    ELSE t

\* STEP 8: FINAL DATA VALIDATION AND SUMMARY
FinalValidationStep ==
    /\ caller = "cleaning"
    /\ CleaningStep("step8", "complete", FinalValidation(df, original_rows))
    /\ cleaned_df' = IF original_rows = 0 THEN cleaned_df ELSE df
    /\ UNCHANGED <<outlier_summary, original_rows>>

\* STEP 2 of the generic script: HANDLING MISSING VALUES
GenericMissingStep ==
    /\ caller = "generic"
    /\ CleaningStep("gstep2", "gstep3", GenericHandleMissing(df))
    /\ original_rows' = Len(df.rows)
    /\ UNCHANGED <<outlier_summary, cleaned_df>>

\* STEP 3 of the generic script: REMOVE DUPLICATE ROWS
GenericDuplicatesStep ==
    /\ caller = "generic"
    /\ CleaningStep("gstep3", "gstep4", RemoveDuplicates(df))
    /\ UNCHANGED <<outlier_summary, original_rows, cleaned_df>>

\* outlier_count / len(df) raises ZeroDivisionError for a table without rows
\* (its numeric columns keep their types)
GenericOutliers(t) ==
    IF t.rows = <<>>
    THEN [type |-> "ZeroDivisionError", key |-> "len(df)", in |-> "gstep4"]
    ELSE DetectOutliers(t, <<"Crop_Year", "Area", "Production">>, TRUE).df

\* STEP 4 of the generic script: OUTLIER DETECTION
GenericOutlierStep ==
    /\ caller = "generic"
    /\ CleaningStep("gstep4", "gstep5", GenericOutliers(df))
    /\ outlier_summary' =
          IF df.rows = <<>> THEN outlier_summary
          ELSE DetectOutliers(df, <<"Crop_Year", "Area", "Production">>, TRUE).outlier_summary
    /\ UNCHANGED <<original_rows, cleaned_df>>

\* STEP 5 and STEP 6 of the generic script: the column types change, the
\* values do not, and the table is stored in cleaned_df
GenericFinalStep ==
    /\ caller = "generic"
    /\ CleaningStep("gstep5", "complete", FinalValidation(df, original_rows))
    /\ cleaned_df' = IF original_rows = 0 THEN cleaned_df ELSE df
    /\ UNCHANGED <<outlier_summary, original_rows>>

NextClean ==
    \/ StandardizeColumnsStep
    \/ CleanCategoricalStep
    \/ HandleMissingStep
    \/ ValidateNumericalStep
    \/ OutlierDetectionStep
    \/ RemoveDuplicatesStep
    \/ FinalValidationStep
    \/ GenericMissingStep
    \/ GenericDuplicatesStep
    \/ GenericOutlierStep
    \/ GenericFinalStep

SpecClean == InitClean /\ [][NextClean]_vars

-----------------------------------------------------------------------------
(* Properties *)

DimensionsBuilt == dimensions # None
DimensionCallMade == dimdf # None
FactCallMade ==
    \/ pc \in {"fact", "summaries", "done"}
    \/ pc = "raised" /\ error.in \in {"create_fact_table", "create_summary_tables"}
FactBuilt == IsTable(fact_table)
SummariesBuilt == summaries # None
HasSourceColumns(t) == \A i \in 1..Len(SourceColumns) : HasCol(t, SourceColumns[i])

\* The axes of the star schema: dimension, its key and identifier columns,
\* and the source column the key is matched with
Axes ==
    {[dim |-> "states",  key |-> "State_Name", id |-> "State_ID",  src |-> "State_Name"],
     [dim |-> "crops",   key |-> "Crop",       id |-> "Crop_ID",   src |-> "Crop"],
     [dim |-> "seasons", key |-> "Season",     id |-> "Season_ID", src |-> "Season"],
     [dim |-> "dates",   key |-> "Year",       id |-> "Date_ID",   src |-> "Crop_Year"]}
NamedAxes == {x \in Axes : x.dim # "dates"}
DateAxis == CHOOSE x \in Axes : x.dim = "dates"

DimOf(x) == dimensions[x.dim]
KeysOf(x) == IF HasCol(DimOf(x), x.key) THEN Column(DimOf(x), x.key) ELSE <<>>
IdsOf(x) == IF HasCol(DimOf(x), x.id) THEN Column(DimOf(x), x.id) ELSE <<>>
NoDuplicates(seq) == \A i, j \in 1..Len(seq) : seq[i] = seq[j] => i = j
DistinctIn(t, col) == Cardinality(Range(Column(t, col)))
DenseIds(x) == Range(IdsOf(x)) = {Val(k) : k \in 1..DistinctIn(dimdf, x.src)}
FirstIndex(seq, v) == CHOOSE i \in 1..Len(seq) : seq[i] = v /\ \A j \in 1..(i-1) : seq[j] # v
IdOfKey(x, v) == DimOf(x).rows[FirstIndex(KeysOf(x), v)][x.id]
IdLess(a, b) == a # Null /\ b # Null /\ a[1] < b[1]

\* C1: create_fact_table returns exactly as many rows as the source table
\* has, for every source table with the columns it reads and every set of
\* dimension tables create_dimension_tables returned.
C1_FactRowCount ==
    (FactCallMade /\ HasSourceColumns(df) /\ DimensionsBuilt)
        => (FactBuilt /\ Len(fact_table.rows) = Len(df.rows))

\* C2 as stated: in each of the four dimensions the natural keys are free of
\* duplicates and the identifiers are exactly 1..n, n the number of distinct
\* values of the column in the source table.
C2_AllDimensionsDense ==
    DimensionsBuilt => \A x \in Axes : NoDuplicates(KeysOf(x)) /\ DenseIds(x)

\* C2 amended: that holds of states, crops and seasons; in the dates
\* dimension the years are free of duplicates, there is one entry for each
\* distinct year, and the identifier of an entry is its year.
C2_DimensionKeys ==
    DimensionsBuilt =>
        /\ \A x \in NamedAxes : NoDuplicates(KeysOf(x)) /\ DenseIds(x)
        /\ NoDuplicates(KeysOf(DateAxis))
        /\ Range(KeysOf(DateAxis)) = Range(Column(dimdf, "Crop_Year"))
        /\ IdsOf(DateAxis) = KeysOf(DateAxis)

C2_Witness ==
    /\ DimensionsBuilt
    /\ Len(dimdf.rows) = 3
    /\ Len(dimensions.states.rows) = 2
    /\ Len(dimensions.dates.rows) = 2

FirstSeenOrder(x) ==
    \A v, w \in Range(Column(dimdf, x.src)) :
        FirstIndex(Column(dimdf, x.src), v) < FirstIndex(Column(dimdf, x.src), w)
            => IdLess(IdOfKey(x, v), IdOfKey(x, w))

\* C3 as stated: in each of the four dimensions a value that first appears
\* in an earlier source row has the smaller identifier.
C3_AllFirstSeenOrder ==
    DimensionsBuilt => \A x \in Axes : FirstSeenOrder(x)

\* C3 amended: states, crops and seasons are numbered and listed in order of
\* first appearance; a year's identifier is the year itself, and the dates
\* entries are listed in ascending order of year when no year is missing.
C3_DimensionOrder ==
    DimensionsBuilt =>
        /\ \A x \in NamedAxes :
              /\ FirstSeenOrder(x)
              /\ \A i \in 1..Len(DimOf(x).rows) : DimOf(x).rows[i][x.id] = Val(i)
        /\ \A i \in 1..Len(dimensions.dates.rows) :
              dimensions.dates.rows[i]["Date_ID"] = dimensions.dates.rows[i]["Year"]
        /\ Null \notin Range(KeysOf(DateAxis)) =>
              \A i, j \in 1..Len(dimensions.dates.rows) :
                  i < j => Less(KeysOf(DateAxis)[i], KeysOf(DateAxis)[j])

C3_Witness ==
    /\ DimensionsBuilt
    /\ Len(dimdf.rows) = 3
    /\ Column(dimdf, "State_Name") = <<Val("B"), Val("A"), Val("B")>>
    /\ Column(dimdf, "Crop_Year") = <<Val(2020), Val(2018), Val(2020)>>
    /\ Column(dimensions.states, "State_Name") = <<Val("B"), Val("A")>>
    /\ Column(dimensions.dates, "Year") = <<Val(2018), Val(2020)>>

\* C4: when the table lacks a dimension column, create_dimension_tables
\* does not fail: it returns an empty dimension for that column and the
\* dimensions of the columns that are there.
C4_MissingColumnEmptyDimension ==
    (DimensionCallMade /\ MissingDimensionColumns(dimdf) # <<>>) =>
        /\ DimensionsBuilt
        /\ pc # "raised"
        /\ \A x \in Axes : ~HasCol(dimdf, x.src) => DimOf(x).rows = <<>>

Unmatched(x, i) == df.rows[i][x.src] \notin Range(KeysOf(x))
ExpectedId(x, i) == IF Unmatched(x, i) THEN Null ELSE IdOfKey(x, df.rows[i][x.src])
Measures5 == {"District_Name", "Area_Hectares", "Production_Tonnes",
              "Yield_Per_Hectare", "Temperature_Avg", "Rainfall_MM"}

\* C5: a source row whose key has no entry in a dimension table is still
\* emitted as a fact row, with a missing identifier on that axis, the
\* identifiers of the other axes and the measures as for a matched row.
C5_UnmatchedRowKept ==
    (FactCallMade /\ HasSourceColumns(df) /\ DimensionsBuilt) =>
        \A i \in 1..Len(df.rows) : \A x \in Axes :
            Unmatched(x, i) =>
                /\ FactBuilt
                /\ Len(fact_table.rows) = Len(df.rows)
                /\ fact_table.rows[i][x.id] = Null
                /\ \A y \in Axes \ {x} : fact_table.rows[i][y.id] = ExpectedId(y, i)
                /\ \A c \in Measures5 : fact_table.rows[i][c] = df.rows[i][c]

\* C6: round trip.  Fact rows are in the order of the source rows, and a
\* non-missing identifier of fact row i is the identifier of exactly one
\* entry of its dimension, whose natural key is the key of source row i.
C6_RoundTrip ==
    FactBuilt =>
        /\ Len(fact_table.rows) = Len(df.rows)
        /\ \A i \in 1..Len(fact_table.rows) :
              /\ fact_table.rows[i]["District_Name"] = df.rows[i]["District_Name"]
              /\ \A x \in Axes :
                    fact_table.rows[i][x.id] # Null =>
                        /\ Cardinality({k \in 1..Len(DimOf(x).rows) :
                               DimOf(x).rows[k][x.id] = fact_table.rows[i][x.id]}) = 1
                        /\ \A k \in 1..Len(DimOf(x).rows) :
                               DimOf(x).rows[k][x.id] = fact_table.rows[i][x.id]
                                   => DimOf(x).rows[k][x.key] = df.rows[i][x.src]

C6_Witness ==
    /\ FactBuilt
    /\ Len(fact_table.rows) = 3
    /\ Len(dimensions.states.rows) = 2
    /\ fact_table.rows[1]["State_ID"] = Val(1)
    /\ fact_table.rows[2]["State_ID"] = Null
    /\ fact_table.rows[3]["State_ID"] = Val(2)
    /\ fact_table.rows[1]["Date_ID"] = Val(2020)

NoSource == caller = "process_all" /\ srcStatus # "ok"

\* C7 as stated: when no source table can be supplied, process_all builds
\* and exports nothing, and no sample data takes the place of the source.
C7_NoSourceAborts ==
    NoSource =>
        /\ df = None
        /\ dimensions = None /\ fact_table = None /\ summaries = None
        /\ exported = {}

\* C7 amended: when no source table can be supplied, load_cleaned_data
\* returns the generated sample table, and process_all builds the
\* dimensions, the fact table and the summaries from it and exports them.
C7_SampleSubstituted ==
    (NoSource /\ pc # "start") =>
        /\ df = CreateSampleAgricultureData(rng)
        /\ Len(df.rows) = Len(rng.rows)
        /\ pc # "raised"
        /\ pc \in {"dims", "fact", "summaries", "done"} => dimdf = df /\ DimensionsBuilt
        /\ pc \in {"fact", "summaries", "done"} => FactBuilt
        /\ pc \in {"summaries", "done"} => SummariesBuilt
        /\ pc = "done" => exported = ExportedFiles

C7_Witness ==
    /\ NoSource
    /\ srcStatus = "missing"
    /\ pc = "done"
    /\ exported = ExportedFiles
    /\ Len(fact_table.rows) = 2

SummaryAxes ==
    {[name |-> "state_summary", key |-> "State_Name", total |-> "Total_Area"],
     [name |-> "crop_summary",  key |-> "Crop",       total |-> "Total_Area"],
     [name |-> "yearly_trends", key |-> "Crop_Year",  total |-> "Area_Hectares"]}

\* C8: in each of the three summaries the rows whose group key is missing
\* form a group of their own, so the total areas of a summary add up to the
\* total area of the source table.
C8_NullGroupKept ==
    SummariesBuilt =>
        \A x \in SummaryAxes :
            /\ Sum(Values(Column(summaries[x.name], x.total)))
                   = 1000 * Sum(Values(Column(df, "Area_Hectares")))
            /\ Null \in Range(Column(df, x.key))
                   => Cardinality({i \in 1..Len(summaries[x.name].rows) :
                          summaries[x.name].rows[i][x.key] = Null}) = 1

RowsOfState(s) == SelectSeq(df.rows, LAMBDA r : r["State_Name"] = s)
AreaOf(s) == Sum([i \in 1..Len(RowsOfState(s)) |-> RowsOfState(s)[i]["Area_Hectares"][1]])
ProductionOf(s) ==
    Sum([i \in 1..Len(RowsOfState(s)) |-> RowsOfState(s)[i]["Production_Tonnes"][1]])
CropsOf(s) == {RowsOfState(s)[i]["Crop"] : i \in 1..Len(RowsOfState(s))} \ {Null}
SummaryRowsOf(s) ==
    SelectSeq(summaries.state_summary.rows, LAMBDA r : r["State_Name"] = s)
StatesOf(t) == Range(Column(t, "State_Name")) \ {Null}

Tolerance == 1000 * 1000

\* the fraction y is production / area within 1e-6
IsQuotient(y, p, a) == Abs(y.num * a - p * y.den) <= (y.den * a) \div Tolerance

YieldRule(yield, p, a) ==
    /\ a > 0 => yield # Null /\ IsQuotient(yield[1], p, a)
    /\ a = 0 => yield = Null

Thousandths(cell) == IF cell = Null THEN Null ELSE Val([num |-> cell[1], den |-> 1000])

\* C10: in the generated sample table and in the table the cleaning script
\* leaves, a row with area > 0 has yield = production / area and a row with
\* area = 0 has a missing yield.
C10_YieldIsQuotient ==
    /\ (NoSource /\ pc # "start") =>
          \A i \in 1..Len(df.rows) :
              YieldRule(Thousandths(df.rows[i]["Yield_Per_Hectare"]),
                        df.rows[i]["Production_Tonnes"][1], df.rows[i]["Area_Hectares"][1])
    /\ (caller = "cleaning" /\ pc = "step6" /\ HasCol(df, "Productivity")) =>
          \A i \in 1..Len(df.rows) :
              YieldRule(df.rows[i]["Productivity"],
                        df.rows[i]["Production"][1], df.rows[i]["Area"][1])

SecondRun == previous # None

\* A table without the given column
Except(t, col) ==
    IF HasCol(t, col) THEN Without(t, col) ELSE t

OutlierStepRan == pc \in {"step7", "gstep5"}

\* C12: in both cleaning scripts the outlier detection step leaves the
\* table as it found it, rows and cells, however many outliers it counts.
C12_OutliersKept ==
    /\ OutlierStepRan => df = before /\ outlier_summary # None
    /\ (pc = "raised" /\ error.in = "gstep4") => df = before

C12_Witness ==
    /\ caller = "cleaning"
    /\ pc = "step7"
    /\ HasCol(df, "Area")
    /\ Column(df, "Area") = <<Val(10), Val(10), Val(10), Val(10), Val(1000)>>
    /\ outlier_summary = [c \in {"Area"} |-> 1]
    /\ df = before

\* The pass of the loop of STEP 4 over column i of the table the step
\* started from: the table before the pass and the table after it
MissingStepRan == caller = "cleaning" /\ pc = "step5"
BeforePass(i) == AfterColumns(before, i - 1)
AfterPass(i) == AfterColumns(before, i)

\* C13: in the agriculture cleaning script an Area or Production column with
\* missing values is filled with its median, no row removed, when strictly
\* less than 20% of its values are missing; when 20% or more are missing
\* the rows with a missing value are removed and nothing is filled.
C13_NumericMissing ==
    MissingStepRan =>
        /\ df = AfterPass(Len(before.cols))
        /\ \A i \in 1..Len(before.cols) :
              LET col == before.cols[i]
                  pre == BeforePass(i)
                  post == AfterPass(i)
              IN (col \in {"Area", "Production"} /\ MissingCount(pre, col) > 0) =>
                    IF 100 * MissingCount(pre, col) < 20 * Len(pre.rows)
                    THEN /\ Len(post.rows) = Len(pre.rows)
                         /\ \A r \in 1..Len(pre.rows) :
                               post.rows[r] =
                                  IF pre.rows[r][col] = Null
                                  THEN [pre.rows[r] EXCEPT
                                           ![col] = Val(Median(Column(pre, col)))]
                                  ELSE pre.rows[r]
                    ELSE post.rows = SelectSeq(pre.rows, LAMBDA row : row[col] # Null)

\* One of five areas is missing, exactly 20%: the row is removed
C13_Witness ==
    /\ MissingStepRan
    /\ HasCol(before, "Area")
    /\ Column(before, "Area") = <<Null, Val(10), Val(10), Val(10), Val(1000)>>
    /\ HasCol(df, "Area")
    /\ Column(df, "Area") = <<Val(10), Val(10), Val(10), Val(1000)>>

GenericMissingStepRan == caller = "generic" /\ pc = "gstep3"

\* The rows of pre with the missing values of col replaced by value
FilledRows(pre, col, value) ==
    [r \in 1..Len(pre.rows) |->
        IF pre.rows[r][col] = Null THEN [pre.rows[r] EXCEPT ![col] = value]
        ELSE pre.rows[r]]

\* The rows of pre that have a value in col
PresentRows(pre, col) == SelectSeq(pre.rows, LAMBDA row : row[col] # Null)

\* C14 as stated: every categorical column with missing values is filled
\* with its mode, or with Unknown when it has no mode, and no row is removed.
C14_CategoricalFilled ==
    /\ MissingStepRan =>
          \A i \in 1..Len(before.cols) :
             LET col == before.cols[i]
                 pre == BeforePass(i)
             IN (col \in CategoricalColumns /\ MissingCount(pre, col) > 0) =>
                   AfterPass(i).rows = FilledRows(pre, col, ModeOrUnknown(Column(pre, col)))
    /\ GenericMissingStepRan =>
          \A i \in 1..Len(before.cols) :
             LET col == before.cols[i]
                 pre == GenericAfterColumns(before, i - 1)
             IN (col \in CategoricalColumns /\ MissingCount(pre, col) > 0) =>
                   GenericAfterColumns(before, i).rows =
                      FilledRows(pre, col, ModeOrUnknown(Column(pre, col)))

\* C14: a Crop or Season column with missing values is filled with its mode
\* (Unknown when it has no value) and keeps its rows; a State_Name or
\* District_Name column loses the rows with a missing value when less than
\* 10% are missing and is filled with Unknown otherwise; in the generic
\* script a categorical column is filled with its mode or Unknown when at
\* most 50% are missing, and is left as it is above 50%.
C14_CategoricalByColumn ==
    /\ MissingStepRan =>
          /\ df = AfterPass(Len(before.cols))
          /\ \A i \in 1..Len(before.cols) :
                LET col == before.cols[i]
                    pre == BeforePass(i)
                    post == AfterPass(i)
                IN (col \in CategoricalColumns /\ MissingCount(pre, col) > 0) =>
                      IF col \in {"Crop", "Season"}
                      THEN post.rows = FilledRows(pre, col, ModeOrUnknown(Column(pre, col)))
                      ELSE IF 100 * MissingCount(pre, col) < 10 * Len(pre.rows)
                      THEN post.rows = PresentRows(pre, col)
                      ELSE post.rows = FilledRows(pre, col, Val("Unknown"))
    /\ GenericMissingStepRan =>
          /\ df = GenericAfterColumns(before, Len(before.cols))
          /\ \A i \in 1..Len(before.cols) :
                LET col == before.cols[i]
                    pre == GenericAfterColumns(before, i - 1)
                    post == GenericAfterColumns(before, i)
                IN (col \in CategoricalColumns /\ MissingCount(pre, col) > 0) =>
                      IF 100 * MissingCount(pre, col) <= 50 * Len(pre.rows)
                      THEN post.rows = FilledRows(pre, col, ModeOrUnknown(Column(pre, col)))
                      ELSE post.rows = pre.rows

\* Two of ten crops are missing and the mode is Rice: both become Rice and
\* the table keeps its ten rows
C14_Witness ==
    /\ MissingStepRan
    /\ HasCol(before, "Crop")
    /\ Column(before, "Crop") = CategoryCells("Crop", 10, 2, 3)
    /\ HasCol(df, "Crop")
    /\ Column(df, "Crop") =
          [i \in 1..10 |-> IF i \in 3..5 THEN Val("Wheat") ELSE Val("Rice")]

ValidationRan == caller = "cleaning" /\ pc = "step6"

\* C15: after the numerical validation step every Area and Production value
\* is non-negative: a negative value v has become -v, a non-negative value
\* is as it was, and the table has the rows it had.
C15_NegativesMadePositive ==
    ValidationRan =>
        /\ Len(df.rows) = Len(before.rows)
        /\ \A col \in {"Area", "Production"} :
              HasCol(before, col) =>
                 /\ HasCol(df, col)
                 /\ \A r \in 1..Len(before.rows) :
                       LET v == before.rows[r][col][1]
                           w == df.rows[r][col][1]
                       IN /\ w >= 0
                          /\ v < 0 => w = -v
                          /\ v >= 0 => w = v

\* An area of -10 and a production of -100 have become 10 and 100, next to
\* an area of 30 and a production of 150 that stayed
C15_Witness ==
    /\ ValidationRan
    /\ HasCol(before, "Area") /\ HasCol(before, "Production")
    /\ Column(before, "Area") = <<Val(-10), Val(30)>>
    /\ Column(before, "Production") = <<Val(-100), Val(150)>>
    /\ Column(df, "Area") = <<Val(10), Val(30)>>
    /\ Column(df, "Production") = <<Val(100), Val(150)>>

DuplicateStepRan == pc \in {"step8", "gstep4"}

NoEqualRows(t) ==
    \A i, j \in 1..Len(t.rows) : i # j => t.rows[i] # t.rows[j]

\* The positions of the rows that no earlier row is equal to
FirstCopies(t) ==
    {i \in 1..Len(t.rows) : \A j \in 1..(i - 1) : t.rows[j] # t.rows[i]}

\* C16: the duplicate-removal step of either script leaves, in their order,
\* the first copy of every distinct row and nothing else, so that rows that
\* differ in any column are all kept; the table a script stores in
\* cleaned_df has no two rows equal in every column.
C16_ExactDuplicatesRemoved ==
    /\ DuplicateStepRan =>
          /\ NoEqualRows(df)
          /\ Len(df.rows) = Cardinality(FirstCopies(before))
          /\ \A i \in FirstCopies(before) :
                df.rows[Cardinality({j \in FirstCopies(before) : j <= i})] = before.rows[i]
    /\ cleaned_df # None => NoEqualRows(cleaned_df)
    /\ (pc = "complete" /\ caller \in {"cleaning", "generic"}) => cleaned_df = df

\* Three rows of one state, district, crop, year and season: the third is a
\* copy of the first and is removed, the second differs in its area and stays
C16_Witness ==
    /\ caller = "cleaning"
    /\ pc = "step8"
    /\ Len(before.rows) = 3
    /\ before.rows[3] = before.rows[1]
    /\ Column(before, "Area") = <<Val(10), Val(30), Val(10)>>
    /\ Column(before, "District_Name") = <<Val("D00"), Val("D00"), Val("D00")>>
    /\ Column(df, "Area") = <<Val(10), Val(30)>>

EnvironmentalColumns == <<"Temperature_Avg", "Rainfall_MM">>
RequiredColumns ==
    <<"State_Name", "District_Name", "Crop_Year", "Season", "Crop",
      "Area_Hectares", "Production_Tonnes", "Yield_Per_Hectare">>
HasColumns(t, cols) == \A i \in 1..Len(cols) : HasCol(t, cols[i])

\* C17: create_fact_table, called on a table that has the required columns,
\* returns a table with the four identifier columns, then district, area,
\* production and yield, then the environmental columns the source table
\* has, and with none of the natural-key columns, also when the source
\* table lacks Temperature_Avg and Rainfall_MM.  (The dimensions come from a
\* table with rows: without rows the dates table has no columns.)
C17_FactColumnsFollowSource ==
    (FactCallMade /\ HasColumns(df, RequiredColumns) /\ dimdf.rows # <<>>) =>
        /\ FactBuilt
        /\ fact_table.cols =
              <<"State_ID", "Crop_ID", "Season_ID", "Date_ID", "District_Name",
                "Area_Hectares", "Production_Tonnes", "Yield_Per_Hectare">>
              \o SelectSeq(EnvironmentalColumns, LAMBDA c : HasCol(df, c))
        /\ \A c \in {"State_Name", "Crop", "Season", "Crop_Year", "Year"} :
              ~HasCol(fact_table, c)

AliasColumns ==
    <<"State_Name", "District_Name", "Crop_Year", "Season", "Crop", "Area", "Production">>

\* C18: a source table that names area and production by their aliases Area
\* and Production is accepted: no builder raises, and once the builders
\* have run the fact table and the summaries exist.  (The table has rows.)
C18_AliasTableAccepted ==
    (caller = "process_all" /\ df # None /\ HasColumns(df, AliasColumns) /\ df.rows # <<>>) =>
        /\ pc # "raised"
        /\ pc \in {"summaries", "done"} => FactBuilt /\ SummariesBuilt

StandardizeRan == caller = "cleaning" /\ pc = "step3"

\* str.lower() of the column names of the model
Lower(name) ==
    CASE name \in {"State_Name", "state_name"} -> "state_name"
      [] name \in {"State", "state", "STATE"} -> "state"
      [] name \in {"Area", "area", "AREA"} -> "area"
      [] name = "Area_hectares" -> "area_hectares"
      [] name = "District_Name" -> "district_name"
      [] name = "Crop_Year" -> "crop_year"
      [] name = "Season" -> "season"
      [] name = "Crop" -> "crop"
      [] name = "Production" -> "production"
      [] OTHER -> name

\* The entries of column_mapping a name matches when case is ignored
MatchesIgnoringCase(name) ==
    {k \in 1..Len(column_mapping) : Lower(column_mapping[k][1]) = Lower(name)}

\* C19: the standardisation step gives every column whose name is a
\* canonical name or an alias, compared without regard to case, its
\* canonical name, and leaves no two columns with the same name.
C19_AliasesIgnoreCase ==
    StandardizeRan =>
        /\ Len(df.cols) = Len(before.cols)
        /\ \A i \in 1..Len(before.cols) :
              \A k \in MatchesIgnoringCase(before.cols[i]) :
                 df.cols[i] = column_mapping[k][2]
        /\ DuplicateNames(df) = {}

\* The places of process_all, in the order of its five stages
StageOrder == <<"start", "loaded", "dims", "fact", "summaries", "done">>
StageOf(p) == CHOOSE i \in 1..Len(StageOrder) : StageOrder[i] = p

AllDimensionsBuilt == DimensionsBuilt /\ DOMAIN dimensions = DimensionNames
AllSummariesBuilt == SummariesBuilt /\ DOMAIN summaries = SummaryNames

\* What the stages have produced is what the stages before the place of
\* control produce, and after an exception a product has those before it
ProductsInOrder ==
    caller = "process_all" =>
        /\ pc # "raised" =>
              /\ (df # None) = (StageOf(pc) >= 2)
              /\ AllDimensionsBuilt = (StageOf(pc) >= 3)
              /\ FactBuilt = (StageOf(pc) >= 4)
              /\ AllSummariesBuilt = (StageOf(pc) >= 5)
              /\ (exported # {}) = (StageOf(pc) >= 6)
        /\ DimensionsBuilt => df # None /\ AllDimensionsBuilt
        /\ FactBuilt => AllDimensionsBuilt
        /\ SummariesBuilt => FactBuilt /\ AllSummariesBuilt
        /\ exported # {} => AllDimensionsBuilt /\ FactBuilt /\ AllSummariesBuilt

\* A step of an execution moves control to the next stage or ends the
\* execution with an exception; only the start of a second execution, after
\* the first is done, moves it back
StageAdvances ==
    caller = "process_all" =>
        \/ pc' = pc
        \/ pc # "raised" /\ pc' = "raised"
        \/ pc \notin {"raised", "done"} /\ pc' # "raised" /\ StageOf(pc') = StageOf(pc) + 1
        \/ pc = "done" /\ pc' = "start" /\ previous = None /\ previous' # None

\* C20: in every execution of process_all the stages load, dimensions,
\* fact table, summaries, export run once each and in that order: the fact
\* table is built only when the four dimensions exist, and the export
\* starts only when the dimensions, the fact table and the three summaries
\* have been built.
C20_StagesInOrder == []ProductsInOrder /\ [][StageAdvances]_vars

\* An execution that has exported, with everything built before
C20_Witness ==
    /\ caller = "process_all"
    /\ pc = "done"
    /\ exported = ExportedFiles
    /\ AllDimensionsBuilt /\ FactBuilt /\ AllSummariesBuilt
    /\ Len(fact_table.rows) = 3

\* C21: when a stage of process_all fails on a source table that has rows
\* (a dimension column is missing, a key is unmatched, a summary group is
\* empty), the run still exports the artifacts that could be computed.
C21_PartialFailureStillExports ==
    (caller = "process_all" /\ pc = "raised" /\ df # None /\ df.rows # <<>>) =>
        exported # {}

RunSucceeded == caller = "process_all" /\ pc = "done"

\* C22: after a successful process_all the schema description has one entry
\* for each dimension table, for the fact table and for each summary table,
\* and each entry gives the number of rows and the column names, in order,
\* of the table exported under that name.
C22_DocsDescribeTables ==
    RunSucceeded =>
        /\ "data_model_info.json" \in exported
        /\ DOMAIN model_info.dimensions = DOMAIN dimensions
        /\ \A n \in DOMAIN dimensions :
              /\ model_info.dimensions[n].rows = Len(dimensions[n].rows)
              /\ model_info.dimensions[n].columns = dimensions[n].cols
        /\ model_info.fact_table.rows = Len(fact_table.rows)
        /\ model_info.fact_table.columns = fact_table.cols
        /\ DOMAIN model_info.summary_tables = DOMAIN summaries
        /\ \A n \in DOMAIN summaries :
              /\ model_info.summary_tables[n].rows = Len(summaries[n].rows)
              /\ model_info.summary_tables[n].columns = summaries[n].cols

\* Three fact rows, two states, one year: the description says so
C22_Witness ==
    /\ RunSucceeded
    /\ model_info.fact_table = [rows |-> 3, columns |-> fact_columns]
    /\ model_info.dimensions["states"].rows = 2
    /\ model_info.dimensions["dates"] = [rows |-> 1, columns |-> DateColumns]
    /\ model_info.summary_tables["state_summary"].rows = 2

\* The decimal text of floor(y / 10) * 10, then the letter s
DecadeLabel(y) == [digits |-> Val((y \div 10) * 10), point |-> FALSE, suffix |-> "s"]

\* C23: for every distinct year y of the source table the dates dimension
\* has exactly one entry, whose Decade is the decimal text of
\* floor(y/10)*10 followed by s, and whose IsCurrentYear says whether y is
\* the calendar year of the build.
C23_DateEntries ==
    DimensionsBuilt =>
        \A y \in Range(Present(Column(dimdf, "Crop_Year"))) :
           LET dates == dimensions.dates
               entries == {i \in 1..Len(dates.rows) : dates.rows[i]["Year"] = y}
           IN /\ Cardinality(entries) = 1
              /\ \A i \in entries :
                    /\ dates.rows[i]["Decade"] = Val(DecadeLabel(y[1]))
                    /\ dates.rows[i]["IsCurrentYear"] = Val(y[1] = now_year)

\* The keys of a summary, in the order of its rows
SummaryKeys(x) == Column(summaries[x.name], x.key)

KeyBefore(x, a, b) == IF x.key = "Crop_Year" THEN Less(a, b) ELSE StrLess(a, b)

\* The observed keys of a summary are those of the source table, once each
\* and in ascending order
ObservedKeysInOrder(x) ==
    /\ Range(Present(SummaryKeys(x))) = Range(Present(Column(df, x.key)))
    /\ \A i, j \in 1..Len(SummaryKeys(x)) :
          (i < j /\ SummaryKeys(x)[i] # Null /\ SummaryKeys(x)[j] # Null) =>
              KeyBefore(x, SummaryKeys(x)[i], SummaryKeys(x)[j])

\* C24: each of the three summaries has exactly one row for every distinct
\* value of its group key observed in the source table, no row for a key
\* without a source row, and its rows in ascending order of the key.  (The
\* rows whose key is missing are the subject of C8.)
C24_OneRowPerKey ==
    SummariesBuilt =>
        \A x \in SummaryAxes :
            /\ Len(SummaryKeys(x)) = Cardinality(Range(Present(Column(df, x.key))))
            /\ ObservedKeysInOrder(x)

\* State B comes first in the source table, state A first in the summary
C24_Witness ==
    /\ SummariesBuilt
    /\ Column(df, "State_Name") = <<Val("B"), Val("A"), Val("B")>>
    /\ SummaryKeys([name |-> "state_summary", key |-> "State_Name"]) = <<Val("A"), Val("B")>>
    /\ SummaryKeys([name |-> "yearly_trends", key |-> "Crop_Year"]) = <<Val(2018), Val(2020)>>

\* A call of a builder leaves the tables it is given as they were
ArgumentsKept ==
    /\ (pc = "loaded" /\ pc' # pc) => df' = df /\ dimdf' = df
    /\ (caller = "direct" /\ pc = "start" /\ pc' # pc) =>
          \E keep \in SUBSET (1..Len(csv.rows)) : dimdf' = RowsAt(csv, keep)
    /\ (pc = "dims" /\ pc' # pc) => df' = df /\ dimensions' = dimensions
    /\ (pc = "fact" /\ pc' \in {"summaries", "raised"}) => df' = df

\* C25: create_dimension_tables, create_fact_table and create_summary_tables
\* leave the source table they are given unchanged, rows, columns, values
\* and order, and create_fact_table leaves the dimension tables unchanged.
C25_BuildersKeepArguments == [][ArgumentsKept]_vars

\* The three builders have run on a table of three rows, which is the
\* table that was loaded
C25_Witness ==
    /\ caller = "process_all"
    /\ srcStatus = "ok"
    /\ SummariesBuilt
    /\ Len(csv.rows) = 3
    /\ df = csv
    /\ dimdf = csv

ForeignKeys ==
    {[column |-> "State_ID", dimension |-> "states"],
     [column |-> "Crop_ID", dimension |-> "crops"],
     [column |-> "Season_ID", dimension |-> "seasons"],
     [column |-> "Date_ID", dimension |-> "dates"]}

KeyResolves(row, k) ==
    /\ row[k.column] # Null
    /\ \E i \in 1..Len(dimensions[k.dimension].rows) :
          dimensions[k.dimension].rows[i][k.column] = row[k.column]

\* C26: in process_all every fact row has a State_ID, a Crop_ID, a
\* Season_ID and a Date_ID that are not null and that occur in the
\* corresponding dimension table, for every source table that has all
\* required columns.
C26_ForeignKeysResolve ==
    (caller = "process_all" /\ FactBuilt /\ HasColumns(df, RequiredColumns)) =>
        \A i \in 1..Len(fact_table.rows) : \A k \in ForeignKeys :
            KeyResolves(fact_table.rows[i], k)

\* The same for the rows whose year is not missing
C26_KeysOfDatedRowsResolve ==
    (caller = "process_all" /\ FactBuilt /\ HasColumns(df, RequiredColumns)) =>
        \A i \in 1..Len(fact_table.rows) : \A k \in ForeignKeys :
            fact_table.rows[i]["Date_ID"] # Null => KeyResolves(fact_table.rows[i], k)

-----------------------------------------------------------------------------
(* powerbi_setup.main *)

required_packages == <<"pandas", "numpy">>

\* The lists missing_packages can be after the import loop: the packages
\* that could not be imported, in the order of required_packages
MissingLists ==
    {SelectSeq(required_packages, LAMBDA p : p \in absent) :
        absent \in SUBSET Range(required_packages)}

\* What subprocess.check_call can do: pip exits with 0, pip exits with
\* another status, or the process cannot be started
PipOutcomes == {"installed", "CalledProcessError", "OSError"}

\* What main can find at the path 'powerbi'
PathKinds == {"directory", "file", "absent"}

\* The files of at most one row the preparation is run on
SetupTables == ShortTables \cup VariantTables

Call(f, r) == [call |-> f, returned |-> r]

\* check_requirements: True when nothing is missing or pip installed what
\* was; False on CalledProcessError; any other exception leaves the function
check_requirements(missing, pip) ==
    IF missing = <<>> THEN "True"
    ELSE IF pip = "installed" THEN "True"
    ELSE IF pip = "CalledProcessError" THEN "False"
    ELSE "raised"

\* A main that goes on whatever a step returned
GoOn(result, next) == next

\* if not <step>: return.  An exception that leaves the step leaves main.
Gate(result, next) ==
    IF result = "True" THEN next
    ELSE IF result = "raised" THEN "uncaught"
    ELSE "exit"

\* os.path.exists('powerbi')
PathExists(kind) == IF kind = "absent" THEN "False" ELSE "True"

\* os.chdir('powerbi'): NotADirectoryError on a file
Chdir(kind) == IF kind = "directory" THEN "None" ELSE "raised"

\* run_data_preparation: True when the import and process_all complete,
\* False when either raises an Exception
run_data_preparation(outcome) == IF outcome = "completed" THEN "True" ELSE "False"

InitSetup ==
    /\ LoadingIdle
    /\ missing_packages \in MissingLists
    /\ steps = <<>>
    /\ caller = "process_all"
    /\ srcStatus = "ok"
    /\ csv \in SetupTables
    /\ rng = NoDraws
    /\ now_year = 2026
    /\ pc = "main"
    /\ df = None
    /\ dimdf = None
    /\ dimensions = None
    /\ fact_table = None
    /\ summaries = None
    /\ exported = {}
    /\ model_info = None
    /\ error = NoError
    /\ previous = None
    /\ before = None
    /\ outlier_summary = None
    /\ original_rows = 0
    /\ cleaned_df = None

processVars ==
    <<df, dimdf, dimensions, fact_table, summaries, exported, model_info, error>>

\* main: if not check_requirements(): return
RequirementsStep ==
    /\ pc = "main"
    /\ \E pip \in PipOutcomes :
          LET r == check_requirements(missing_packages, pip)
          IN /\ steps' = Append(steps, Call("check_requirements", r))
             /\ pc' = Gate(r, "directory")
    /\ UNCHANGED <<missing_packages, processVars, pipelineVars, cleaningVars, loadingVars>>

\* main: if not os.path.exists('powerbi'): return; os.chdir('powerbi')
DirectoryStep ==
    /\ pc = "directory"
    /\ \E kind \in PathKinds :
          /\ steps' = steps \o <<Call("os.path.exists", PathExists(kind))>>
                           \o (IF Gate(PathExists(kind), "chdir") = "chdir"
                               THEN <<Call("os.chdir", Chdir(kind))>>
                               ELSE <<>>)
          /\ pc' = Gate(PathExists(kind),
                        IF Chdir(kind) = "raised" THEN "uncaught" ELSE "prepare")
    /\ UNCHANGED <<missing_packages, processVars, pipelineVars, cleaningVars, loadingVars>>

\* run_data_preparation: the import, then process_all is started
PreparationStart ==
    /\ pc = "prepare"
    /\ \E importable \in BOOLEAN :
          IF importable
          THEN pc' = "start" /\ UNCHANGED steps
          ELSE LET r == run_data_preparation("ImportError")
               IN /\ steps' = Append(steps, Call("run_data_preparation", r))
                  /\ pc' = Gate(r, "desktop")
    /\ UNCHANGED <<missing_packages, processVars, pipelineVars, cleaningVars, loadingVars>>

\* run_data_preparation: process_all has completed or raised
PreparationEnd ==
    /\ pc \in {"done", "raised"}
    /\ LET r == run_data_preparation(IF pc = "done" THEN "completed" ELSE error.type)
       IN /\ steps' = Append(steps, Call("run_data_preparation", r))
          /\ pc' = Gate(r, "desktop")
    /\ UNCHANGED <<missing_packages, processVars, pipelineVars, cleaningVars, loadingVars>>

\* main: check_powerbi_desktop(), whose result is not used
DesktopStep ==
    /\ pc = "desktop"
    /\ \E found \in {"True", "False"} :
          steps' = Append(steps, Call("check_powerbi_desktop", found))
    /\ pc' = "next_steps"
    /\ UNCHANGED <<missing_packages, processVars, pipelineVars, cleaningVars, loadingVars>>

\* main: show_next_steps()
NextStepsStep ==
    /\ pc = "next_steps"
    /\ steps' = Append(steps, Call("show_next_steps", "None"))
    /\ pc' = "exit"
    /\ UNCHANGED <<missing_packages, processVars, pipelineVars, cleaningVars, loadingVars>>

NextSetup ==
    \/ RequirementsStep
    \/ DirectoryStep
    \/ PreparationStart
    \/ LoadStep
    \/ DimensionStep
    \/ FactStep
    \/ SummaryStep
    \/ ExportStep
    \/ PreparationEnd
    \/ DesktopStep
    \/ NextStepsStep

SpecSetup == InitSetup /\ [][NextSetup]_vars

Called(f) == \E i \in 1..Len(steps) : steps[i].call = f
Returned(f, r) == \E i \in 1..Len(steps) : steps[i] = Call(f, r)
MainEnded == pc \in {"exit", "uncaught"}
PreparationUntouched == df = None /\ exported = {} /\ ~Called("run_data_preparation")

\* check_requirements returned True, main changed into the powerbi
\* directory, and run_data_preparation returned True
AllGatesPassed ==
    /\ Returned("check_requirements", "True")
    /\ Returned("os.chdir", "None")
    /\ Returned("run_data_preparation", "True")

\* C27: in powerbi_setup.main show_next_steps is executed if and only if
\* check_requirements returned True, the powerbi directory exists and
\* run_data_preparation returned True; when an earlier gate fails no later
\* step runs; run_data_preparation turns every exception of the pipeline
\* into a False result; the result of check_powerbi_desktop never prevents
\* show_next_steps.
C27_SetupGates ==
    /\ Called("show_next_steps") => AllGatesPassed
    /\ (MainEnded /\ AllGatesPassed) => Called("show_next_steps")
    /\ ~Returned("check_requirements", "True") =>
          (Len(steps) <= 1 /\ PreparationUntouched)
    /\ Returned("os.path.exists", "False") =>
          (Len(steps) = 2 /\ PreparationUntouched)
    /\ Returned("run_data_preparation", "False") =>
          (pc = "exit" /\ ~Called("check_powerbi_desktop") /\ ~Called("show_next_steps"))
    /\ (pc = "raised" \/ error # NoError) => ~Returned("run_data_preparation", "True")
    /\ Returned("os.chdir", "None") => pc # "uncaught"
    /\ (MainEnded /\ Called("check_powerbi_desktop")) => Called("show_next_steps")

\* pip installed a missing package, the preparation completed, Power BI
\* Desktop was not found, and the next steps were shown
C27_Witness ==
    /\ missing_packages = <<"numpy">>
    /\ pc = "exit"
    /\ "data_model_info.json" \in exported
    /\ steps = <<Call("check_requirements", "True"), Call("os.path.exists", "True"),
                 Call("os.chdir", "None"), Call("run_data_preparation", "True"),
                 Call("check_powerbi_desktop", "False"), Call("show_next_steps", "None")>>

\* process_all raised, and main returned without showing the next steps
C27_FailureWitness ==
    /\ pc = "exit"
    /\ error # NoError
    /\ steps = <<Call("check_requirements", "True"), Call("os.path.exists", "True"),
                 Call("os.chdir", "None"), Call("run_data_preparation", "False")>>

-----------------------------------------------------------------------------
(* Untitled-1: the loading section *)

\* The candidate URLs, by their path below the repository
possible_files ==
    <<"main/data.csv", "main/dataset.csv", "main/india_data.csv",
      "main/Data/data.csv", "master/data.csv", "master/dataset.csv">>

local_files ==
    <<"india_dataset.csv", "data.csv", "dataset.csv", "india_data.csv",
      "Data/data.csv", "Data/dataset.csv">>

\* The tables read_csv can give for the content found at a place: the
\* header alone, a row with a missing value, a full row.  The row names the
\* place it comes from.
TablesAt(place) ==
    {Table(<<"State", "GDP">>, <<>>),
     Table(<<"State", "GDP">>, <<[State |-> Val(place), GDP |-> Null]>>),
     Table(<<"State", "GDP">>, <<[State |-> Val(place), GDP |-> Val(325)]>>)}

\* pd.DataFrame(sample_data); GDP, Literacy_Rate and Urban_Population_Pct in
\* tenths
SampleColumns == <<"State", "Population", "GDP", "Literacy_Rate", "Urban_Population_Pct">>
SampleRecord(state, population, gdp, literacy, urban) ==
    [State |-> Val(state), Population |-> Val(population), GDP |-> Val(gdp),
     Literacy_Rate |-> Val(literacy), Urban_Population_Pct |-> Val(urban)]
sample_data ==
    Table(SampleColumns,
          <<SampleRecord("Maharashtra", 112000000, 325, 823, 452),
            SampleRecord("Karnataka", 61000000, 216, 754, 387),
            SampleRecord("Tamil Nadu", 72000000, 231, 801, 484),
            SampleRecord("Gujarat", 60000000, 208, 780, 426),
            SampleRecord("Rajasthan", 68000000, 119, 661, 249)>>)

\* What one pass of the download loop can meet: requests.get raises, the
\* status is not 200, read_csv raises, to_csv raises, or all of it works
Responses(url) ==
    {[outcome |-> o, table |-> None] : o \in {"request_error", "status", "parse_error"}}
    \cup {[outcome |-> o, table |-> t] : o \in {"save_error", "ok"}, t \in TablesAt(url)}

\* A download that returns as soon as the content has been parsed
Parsed(outcome) == outcome \in {"ok", "save_error"}

\* The pass returns the table: status 200, and neither read_csv nor to_csv
\* raised
Succeeds(outcome) == outcome = "ok"

\* What load_local_dataset can meet at a path: no file, a file read_csv
\* raises on, a file it reads
LocalStates(path) ==
    {[outcome |-> o, table |-> None] : o \in {"absent", "unreadable"}}
    \cup {[outcome |-> "ok", table |-> t] : t \in TablesAt(path)}

\* A script that goes on to the next source whatever it has
NextSourceAlways(table, next) == next

\* if df is None: the next source is consulted only when there is no table
NextSource(table, next) == IF table = None THEN next ELSE "overview"

CountMissing(t) ==
    Sum([i \in 1..Len(t.rows) |->
            Cardinality({c \in Range(t.cols) : t.rows[i][c] = Null})])

\* The overview printed for the table: total_missing is a numpy integer,
\* so the percentage of a table without cells is nan
Overview(t) ==
    [rows |-> Len(t.rows),
     columns |-> Len(t.cols),
     total_missing |-> CountMissing(t),
     missing_pct |-> IF Len(t.rows) * Len(t.cols) = 0 THEN Null
                     ELSE Val([num |-> CountMissing(t) * 100,
                               den |-> Len(t.rows) * Len(t.cols)])]

InitLoad ==
    /\ SetupIdle
    /\ LoadingIdle
    /\ caller = "loading"
    /\ pc = "download"
    /\ df = None
    /\ srcStatus = "ok"
    /\ csv = None
    /\ rng = NoDraws
    /\ now_year = 2026
    /\ dimdf = None
    /\ dimensions = None
    /\ fact_table = None
    /\ summaries = None
    /\ exported = {}
    /\ model_info = None
    /\ error = NoError
    /\ previous = None
    /\ before = None
    /\ outlier_summary = None
    /\ original_rows = 0
    /\ cleaned_df = None

\* download_india_dataset: one pass of the loop over possible_files
DownloadAttempt ==
    /\ pc = "download"
    /\ Len(requested) < Len(possible_files)
    /\ LET url == possible_files[Len(requested) + 1]
       IN \E r \in Responses(url) :
            /\ requested' = Append(requested, [url |-> url, outcome |-> r.outcome])
            /\ IF Succeeds(r.outcome)
               THEN /\ df' = r.table
                    /\ source_url' = url
                    /\ pc' = NextSource(r.table, "local")
               ELSE UNCHANGED <<df, source_url, pc>>
    /\ UNCHANGED <<examined, source_file, india_df, error>>
    /\ UNCHANGED <<pipelineVars, cleaningVars, setupVars>>

\* download_india_dataset: the loop is over, return None, None
DownloadGivesUp ==
    /\ pc = "download"
    /\ Len(requested) = Len(possible_files)
    /\ df' = None
    /\ source_url' = "None"
    /\ pc' = NextSource(None, "local")
    /\ UNCHANGED <<requested, examined, source_file, india_df, error>>
    /\ UNCHANGED <<pipelineVars, cleaningVars, setupVars>>

\* load_local_dataset: one pass of the loop over local_files
LocalAttempt ==
    /\ pc = "local"
    /\ Len(examined) < Len(local_files)
    /\ LET path == local_files[Len(examined) + 1]
       IN \E f \in LocalStates(path) :
            /\ examined' = Append(examined, path)
            /\ IF f.outcome = "ok"
               THEN /\ df' = f.table
                    /\ source_file' = path
                    /\ pc' = NextSource(f.table, "sample")
               ELSE UNCHANGED <<df, source_file, pc>>
    /\ UNCHANGED <<requested, source_url, india_df, error>>
    /\ UNCHANGED <<pipelineVars, cleaningVars, setupVars>>

\* load_local_dataset: the loop is over, return None, None
LocalGivesUp ==
    /\ pc = "local"
    /\ Len(examined) = Len(local_files)
    /\ df' = None
    /\ source_file' = "None"
    /\ pc' = NextSource(None, "sample")
    /\ UNCHANGED <<requested, examined, source_url, india_df, error>>
    /\ UNCHANGED <<pipelineVars, cleaningVars, setupVars>>

\* The hard-coded sample table
SampleStep ==
    /\ pc = "sample"
    /\ df' = sample_data
    /\ pc' = "overview"
    /\ UNCHANGED <<requested, examined, source_url, source_file, india_df, error>>
    /\ UNCHANGED <<pipelineVars, cleaningVars, setupVars>>

\* if df is not None: the overview is printed and the table is stored
OverviewStep ==
    /\ pc = "overview"
    /\ IF df = None
       THEN pc' = "loaded" /\ UNCHANGED <<india_df, error>>
       ELSE IF IsError(Overview(df))
       THEN Raise(Overview(df)) /\ UNCHANGED india_df
       ELSE india_df' = df /\ pc' = "loaded" /\ UNCHANGED error
    /\ UNCHANGED <<df, requested, examined, source_url, source_file>>
    /\ UNCHANGED <<pipelineVars, cleaningVars, setupVars>>

NextLoad ==
    \/ DownloadAttempt
    \/ DownloadGivesUp
    \/ LocalAttempt
    \/ LocalGivesUp
    \/ SampleStep
    \/ OverviewStep

SpecLoad == InitLoad /\ [][NextLoad]_vars

\* The script is one thread that runs to its end; requests.get has a timeout
SpecLoadFair == SpecLoad /\ WF_vars(NextLoad)

AllFailed(log) == \A i \in 1..Len(log) : ~Succeeds(log[i].outcome)
InListedOrder(log) == \A i \in 1..Len(log) : log[i].url = possible_files[i]
ServedBy(t, place) == t # None /\ \A i \in 1..Len(t.rows) : t.rows[i]["State"] = Val(place)
DownloadReturned == source_url # "unassigned"

\* C29: download_india_dataset tries the six candidate URLs in their listed
\* order; it returns the table of the first URL that answers with status
\* 200 and whose content is parsed and saved without error, and requests no
\* later URL after that; a non-200 status or an exception on one URL never
\* prevents the next URL from being tried; it returns (None, None) only
\* after all six attempts have failed, and it never raises.
C29_DownloadInOrder ==
    /\ InListedOrder(requested)
    /\ AllFailed(SubSeq(requested, 1, Len(requested) - 1))
    /\ ~DownloadReturned =>
          (pc = "download" /\ AllFailed(requested) /\ error = NoError)
    /\ (DownloadReturned /\ source_url # "None") =>
          /\ source_url = possible_files[Len(requested)]
          /\ requested[Len(requested)].outcome = "ok"
          /\ ServedBy(df, source_url)
    /\ source_url = "None" =>
          /\ Len(requested) = Len(possible_files)
          /\ AllFailed(requested)
          /\ examined = <<>> => df = None
    /\ (caller = "loading" /\ examined = <<>> /\ india_df = None) => pc # "raised"

\* Five URLs failed, each in its way, and the sixth gave the table
C29_Witness ==
    /\ Len(requested) = 6
    /\ [i \in 1..6 |-> requested[i].outcome] =
          <<"status", "request_error", "parse_error", "save_error", "status", "ok">>
    /\ source_url = "master/dataset.csv"
    /\ df = Table(<<"State", "GDP">>, <<[State |-> Val("master/dataset.csv"), GDP |-> Val(325)]>>)

\* The sources are consulted in their order, and the loading section ends
\* with a table
FallbackInOrder ==
    /\ examined # <<>> => (source_url = "None" /\ AllFailed(requested))
    /\ source_file # "unassigned" => source_url = "None"
    /\ (pc = "sample" \/ df = sample_data) =>
          /\ source_url = "None"
          /\ source_file = "None"
          /\ Len(examined) = Len(local_files)
    /\ (DownloadReturned /\ source_url # "None") =>
          (examined = <<>> /\ ServedBy(df, source_url))
    /\ source_file \notin {"unassigned", "None"} => ServedBy(df, source_file)
    /\ pc \in {"overview", "loaded"} => df # None
    /\ pc = "loaded" => (india_df # None /\ india_df = df)
    /\ pc # "raised"

\* C28: in the loading script the sources are consulted in a fixed
\* fallback order: local files are checked only if no download succeeded,
\* and the sample table is created only if both the download and the local
\* files failed; in every execution the table is non-null at the end of the
\* loading section, so india_df is always stored for the cleaning section.
C28_FallbackOrder == []FallbackInOrder /\ <>(pc = "loaded" /\ india_df # None)

\* Every URL and every local file failed, and the sample table was stored
C28_Witness ==
    /\ pc = "loaded"
    /\ Len(requested) = 6
    /\ Len(examined) = 6
    /\ india_df = sample_data

\* The download failed, the first local file was absent and the second one,
\* which holds only a header, was stored
C28_LocalWitness ==
    /\ pc = "loaded"
    /\ source_url = "None"
    /\ source_file = "data.csv"
    /\ india_df = Table(<<"State", "GDP">>, <<>>)

TypedColumns == CategoricalColumns \cup NumericColumns
MostlyMissing(t, col) == 100 * MissingCount(t, col) > 50 * Len(t.rows)
PresentValuesKept(pre, post, col) ==
    \A r \in 1..Len(pre.rows) :
        pre.rows[r][col] # Null => post.rows[r][col] = pre.rows[r][col]

\* C30: in the generic cleaning script the missing-value step never removes
\* a row; after it every column that had at most 50% missing values and has
\* an object, category, int64 or float64 type contains no missing value,
\* while a column with more than 50% missing values is left exactly as it
\* was (so that cleaned_df can hold missing values: C30_Witness).
C30_GenericMissingValues ==
    GenericMissingStepRan =>
        /\ df.cols = before.cols
        /\ Len(df.rows) = Len(before.rows)
        /\ \A col \in Range(before.cols) :
              IF MostlyMissing(before, col)
              THEN Column(df, col) = Column(before, col)
              ELSE /\ col \in TypedColumns => MissingCount(df, col) = 0
                   /\ PresentValuesKept(before, df, col)

\* Two of three areas were missing: the column was left as it was and the
\* table stored as cleaned_df holds the two missing values
C30_Witness ==
    /\ caller = "generic"
    /\ pc = "complete"
    /\ cleaned_df # None
    /\ Column(cleaned_df, "Area") = <<Null, Null, Val(10)>>

\* One of three productions was missing and has become the median of the
\* other two
C30_FilledWitness ==
    /\ GenericMissingStepRan
    /\ Column(before, "Production") = <<Val(10), Null, Val(1000)>>
    /\ Column(df, "Production") = <<Val(10), Val(505), Val(1000)>>

====
